---- MODULE Spec2Model ----
(***************************************************************************)
(* A model of the SPS30 driver (src/SPS30.py): the checksum, the packet    *)
(* and float decoders, the three section decoders of the 60-byte           *)
(* measurement response, the rolling window of get_measurement, the        *)
(* session flags and counters, and the auto-clean interval write/read.     *)
(*                                                                         *)
(* Conventions.                                                            *)
(*  - A Python bytes object or list is a sequence of 0..255; Python's      *)
(*    0-based data[a:b] is Slice(data, a, b), data[i] is At(data, i).      *)
(*  - A 32-bit word is kept as its four bytes (or two 16-bit halves):      *)
(*    the integers of the model checker are 32-bit signed.                 *)
(*  - A float is the record [cls, s, mant, exp, div] with value            *)
(*    (-1)^s * mant * 2^exp / div; div = 1 for every decoded float, and    *)
(*    the quotient s / n of the rolling mean is kept exact (div odd).      *)
(*  - None is the value None of hist_maxlen and of a result slot; an       *)
(*    object attribute that does not exist yet is has_hist = FALSE.        *)
(***************************************************************************)
EXTENDS Integers, Sequences, FiniteSets, TLC

(***************************************************************************)
(* Bounds of the model.                                                    *)
(***************************************************************************)
\* Window sizes 1..MaxRollingN are requested.
MaxRollingN == 3
\* The cumulative checksum-error counter is followed up to this value in the
\* window specification, and up to MaxFrameErrors in the frame specification.
MaxErrors == 1
MaxFrameErrors == 4
\* and up to this value in the auto-clean specification
MaxAutoErrors == 2
\* and up to this value in the specification of all operations
MaxOpsErrors == 2

(***************************************************************************)
(* Program constants (class SPS30).                                        *)
(***************************************************************************)
NBYTES_READ_DATA_READY_FLAG == 3
NBYTES_MEASURED_VALUES_FLOAT == 60
NBYTES_AUTO_CLEANING_INTERVAL == 6
NBYTES_PRODUCT_TYPE == 12
NBYTES_SERIAL_NUMBER == 48
NBYTES_FIRMWARE_VERSION == 3
NBYTES_READ_STATUS_REGISTER == 6
PACKET_SIZE == 3
SIZE_FLOAT == 6
CMD_START_MEASUREMENT == <<0, 16>>
CMD_STOP_MEASUREMENT == <<1, 4>>
CMD_READ_DATA_READY_FLAG == <<2, 2>>
CMD_READ_MEASURED_VALUES == <<3, 0>>
CMD_SLEEP == <<16, 1>>
CMD_WAKEUP == <<17, 3>>
CMD_START_FAN_CLEANING == <<86, 7>>
CMD_AUTO_CLEANING_INTERVAL == <<128, 4>>
CMD_PRODUCT_TYPE == <<208, 2>>
CMD_SERIAL_NUMBER == <<208, 51>>
CMD_FIRMWARE_VERSION == <<209, 0>>
CMD_READ_STATUS_REGISTER == <<210, 6>>
CMD_CLEAR_STATUS_REGISTER == <<210, 16>>
CMD_RESET == <<211, 4>>

\* the class-level lists by their names, as the class body creates them
CommandTable ==
  [CMD_START_MEASUREMENT |-> CMD_START_MEASUREMENT,
   CMD_STOP_MEASUREMENT |-> CMD_STOP_MEASUREMENT,
   CMD_READ_DATA_READY_FLAG |-> CMD_READ_DATA_READY_FLAG,
   CMD_READ_MEASURED_VALUES |-> CMD_READ_MEASURED_VALUES,
   CMD_SLEEP |-> CMD_SLEEP,
   CMD_WAKEUP |-> CMD_WAKEUP,
   CMD_START_FAN_CLEANING |-> CMD_START_FAN_CLEANING,
   CMD_AUTO_CLEANING_INTERVAL |-> CMD_AUTO_CLEANING_INTERVAL,
   CMD_PRODUCT_TYPE |-> CMD_PRODUCT_TYPE,
   CMD_SERIAL_NUMBER |-> CMD_SERIAL_NUMBER,
   CMD_FIRMWARE_VERSION |-> CMD_FIRMWARE_VERSION,
   CMD_READ_STATUS_REGISTER |-> CMD_READ_STATUS_REGISTER,
   CMD_CLEAR_STATUS_REGISTER |-> CMD_CLEAR_STATUS_REGISTER,
   CMD_RESET |-> CMD_RESET]

\* cmd = self.CMD_X; cmd.extend(...); cmd.append(...): cmd is the
\* class-level list itself, which takes the argument bytes
ExtendedShared(entry, args) == [cmd |-> entry \o args, entry |-> entry \o args]

\* cmd = self.CMD_X.copy(); cmd.extend(...); cmd.append(...): the list cmd
\* after the statements, and the class-level list entry after them
ExtendedCopy(entry, args) == [cmd |-> entry \o args, entry |-> entry]
\* guard_ms default of _write_cmd
GUARD_MS_DEFAULT == 20
\* seconds per day, write_auto_cleaning_interval_days
SECONDS_PER_DAY == 86400

(***************************************************************************)
(* Python sequences.                                                       *)
(***************************************************************************)
Min(a, b) == IF a < b THEN a ELSE b
Max(a, b) == IF a > b THEN a ELSE b

\* data[a:b] for 0 <= a <= b: clamped to the data, never an error
Slice(data, a, b) ==
  LET hi == Min(b, Len(data))
  IN IF a >= hi THEN <<>> ELSE SubSeq(data, a + 1, hi)

\* data[i] is an IndexError unless InRange(data, i)
InRange(data, i) == i >= 0 /\ i < Len(data)
At(data, i) == data[i + 1]

(***************************************************************************)
(* Bit operations on bytes.                                                *)
(***************************************************************************)
RECURSIVE XorBits(_, _, _)
XorBits(a, b, k) ==
  IF k = 0 THEN 0
  ELSE ((a + b) % 2) + 2 * XorBits(a \div 2, b \div 2, k - 1)

Xor8(a, b) == XorBits(a, b, 8)

(***************************************************************************)
(* crc_calc: Sensirion CRC-8, polynomial 0x31, initial value 0xFF.         *)
(***************************************************************************)
\* one pass of the inner loop body: crc & 0x80 ? ((crc<<1)^0x31)&0xFF : (crc<<1)&0xFF
CrcShiftOnce(crc) ==
  IF crc >= 128 THEN Xor8((crc * 2) % 256, 49) ELSE (crc * 2) % 256

RECURSIVE CrcShift(_, _)
CrcShift(crc, k) == IF k = 0 THEN crc ELSE CrcShift(CrcShiftOnce(crc), k - 1)

\* `for _ in range(8)`: the 8 shifts of every byte value, computed once
CrcShift8 == [c \in 0..255 |-> CrcShift(c, 8)]

\* crc ^= byte, then the 8 shifts
CrcByte(crc, byte) == CrcShift8[Xor8(crc, byte)]

\* a checksum that starts from 0x00
crc_calc_init_zero(data) ==
  IF Len(data) # 2 THEN 255
  ELSE CrcByte(CrcByte(0, data[1]), data[2])

crc_calc(data) ==
  IF Len(data) # 2 THEN 255
  ELSE CrcByte(CrcByte(255, data[1]), data[2])

(***************************************************************************)
(* Floats.                                                                 *)
(***************************************************************************)
RECURSIVE Pow2(_)
Pow2(k) == IF k = 0 THEN 1 ELSE 2 * Pow2(k - 1)

RECURSIVE GCD(_, _)
GCD(a, b) == IF b = 0 THEN a ELSE GCD(b, a % b)

\* the number of factors 2 of m > 0
RECURSIVE Twos(_)
Twos(m) == IF m % 2 = 1 THEN 0 ELSE 1 + Twos(m \div 2)

\* the finite value sm * 2^x / d (sm signed, d odd), in lowest terms
MkNum(sm, x, d) ==
  IF sm = 0
    THEN [cls |-> "zero", s |-> 0, mant |-> 0, exp |-> 0, div |-> 1]
    ELSE LET a == IF sm < 0 THEN -sm ELSE sm
             t == Twos(a)
             m == a \div Pow2(t)
             g == GCD(m, d)
         IN [cls |-> "num", s |-> IF sm < 0 THEN 1 ELSE 0,
             mant |-> m \div g, exp |-> x + t, div |-> d \div g]

\* 0.0, the start value of every sum
FZero == MkNum(0, 0, 1)

Signed(a) == IF a.s = 1 THEN -a.mant ELSE a.mant

\* a + b for finite a, b with div = 1 (decoded floats and their sums)
FAdd(a, b) ==
  IF a.mant = 0 THEN b
  ELSE IF b.mant = 0 THEN a
  ELSE LET x == Min(a.exp, b.exp)
       IN MkNum(Signed(a) * Pow2(a.exp - x) + Signed(b) * Pow2(b.exp - x), x, 1)

\* a / n for finite a and an integer n >= 1
FDiv(a, n) ==
  LET t == Twos(n)
  IN MkNum(Signed(a), a.exp - t, a.div * (n \div Pow2(t)))

\* the three bit fields of the word b0 b1 b2 b3 (big-endian)
SignBit(w) == w[1] \div 128
ExponentBits(w) == ((w[1] % 128) * 2) + (w[2] \div 128)
FractionBits(w) == ((w[2] % 128) * 65536) + (w[3] * 256) + w[4]

\* a decoder that gives a subnormal the implicit leading 1 of a normal
ieee754_implicit_one(w) ==
  LET s == SignBit(w)
      e == ExponentBits(w)
      f == FractionBits(w)
      x == IF e = 0 THEN 1 - 127 - 23 ELSE e - 127 - 23
      m == 8388608 + f
  IN IF e = 0 /\ f = 0
       THEN [cls |-> "zero", s |-> s, mant |-> 0, exp |-> 0, div |-> 1]
     ELSE IF e = 255
       THEN [cls |-> IF f # 0 THEN "nan" ELSE "inf", s |-> s,
             mant |-> 0, exp |-> 0, div |-> 1]
     ELSE MkNum(IF s = 1 THEN -m ELSE m, x, 1)

\* u32 -> float; both the struct path and the bit-twiddling fallback
ieee754_number_conversion(w) ==
  LET s == SignBit(w)
      e == ExponentBits(w)
      f == FractionBits(w)
      \* (exp, mant) = (1-bias, f/2^23) if e == 0 else (e-bias, 1+f/2^23)
      x == IF e = 0 THEN 1 - 127 - 23 ELSE e - 127 - 23
      m == IF e = 0 THEN f ELSE 8388608 + f
  IN IF e = 0 /\ f = 0
       THEN [cls |-> "zero", s |-> s, mant |-> 0, exp |-> 0, div |-> 1]
     ELSE IF e = 255
       THEN [cls |-> IF f # 0 THEN "nan" ELSE "inf", s |-> s,
             mant |-> 0, exp |-> 0, div |-> 1]
     ELSE MkNum(IF s = 1 THEN -m ELSE m, x, 1)

\* the float with integer value n, what a test names 10.0, 20.0, ...
FloatOf(n) == MkNum(n, 0, 1)

(***************************************************************************)
(* The three section decoders.  Each returns                               *)
(*   exc   : an exception (IndexError) left the function,                  *)
(*   val   : the returned value (NoValue for {} and, with exc, nothing),   *)
(*   ok    : the value is a decoded section (not {} / 0.0 of a failure),   *)
(*   flag  : the value assigned to self._valid[section], "same" if none,   *)
(*   errs  : the increments of self._total_crc_errors.                     *)
(***************************************************************************)
NoValue == <<>>
MassKeys == <<"pm1.0", "pm2.5", "pm4.0", "pm10">>
CountKeys == <<"pm0.5", "pm1.0", "pm2.5", "pm4.0", "pm10">>

SeqRange(q) == {q[i] : i \in 1..Len(q)}

\* one packet of a float at `offset`: "index" (IndexError), "crc" (mismatch) or "ok"
PacketCheck(data, offset) ==
  LET data_bytes == Slice(data, offset, offset + 2)
      calculated_crc == crc_calc(data_bytes)
  IN IF ~InRange(data, offset + 2) THEN "index"
     ELSE IF calculated_crc # At(data, offset + 2) THEN "crc"
     ELSE "ok"

\* a section loop that goes on to the next field after a checksum failure
RECURSIVE SectionLoopCountAll(_, _, _, _)
SectionLoopCountAll(data, keys, block, acc) ==
  IF block >= Len(keys)
    THEN [exc |-> FALSE, ok |-> TRUE, val |-> acc, flag |-> "true", errs |-> 0]
  ELSE
    LET o0 == block * SIZE_FLOAT
        o1 == block * SIZE_FLOAT + PACKET_SIZE
        c0 == PacketCheck(data, o0)
        c1 == PacketCheck(data, o1)
        bad == IF c0 # "ok" THEN c0 ELSE c1
        pm_data == Slice(data, o0, o0 + 2) \o Slice(data, o1, o1 + 2)
        rest == SectionLoopCountAll(data, keys, block + 1, acc)
    IN IF bad = "index"
         THEN [exc |-> TRUE, ok |-> FALSE, val |-> NoValue, flag |-> "same", errs |-> 0]
       ELSE IF bad = "crc"
         THEN IF rest.exc THEN rest
              ELSE [exc |-> FALSE, ok |-> FALSE, val |-> NoValue, flag |-> "false",
                    errs |-> rest.errs + 1]
       ELSE SectionLoopCountAll(data, keys, block + 1,
              [k \in SeqRange(keys) |->
                 IF k = keys[block + 1] THEN ieee754_number_conversion(pm_data)
                 ELSE acc[k]])

\* the loop `for block, pm in enumerate(category)`, from `block` on:
\* the first packet that is not ok ends it
RECURSIVE SectionLoop(_, _, _, _)
SectionLoop(data, keys, block, acc) ==
  IF block >= Len(keys)
    THEN [exc |-> FALSE, ok |-> TRUE, val |-> acc, flag |-> "true", errs |-> 0]
  ELSE
    LET o0 == block * SIZE_FLOAT
        o1 == block * SIZE_FLOAT + PACKET_SIZE
        c0 == PacketCheck(data, o0)
        c1 == PacketCheck(data, o1)
        bad == IF c0 # "ok" THEN c0 ELSE c1
        pm_data == Slice(data, o0, o0 + 2) \o Slice(data, o1, o1 + 2)
    IN IF bad = "index"
         THEN [exc |-> TRUE, ok |-> FALSE, val |-> NoValue, flag |-> "same", errs |-> 0]
       ELSE IF bad = "crc"
         THEN [exc |-> FALSE, ok |-> FALSE, val |-> NoValue, flag |-> "false", errs |-> 1]
       ELSE SectionLoop(data, keys, block + 1,
              [k \in SeqRange(keys) |->
                 IF k = keys[block + 1] THEN ieee754_number_conversion(pm_data)
                 ELSE acc[k]])

SectionZero(keys) == [k \in SeqRange(keys) |-> FZero]

_mass_density_measurement(data) == SectionLoop(data, MassKeys, 0, SectionZero(MassKeys))

_particle_count_measurement(data) == SectionLoop(data, CountKeys, 0, SectionZero(CountKeys))

\* a particle-size decode that does not compare the checksums
_particle_size_no_check(data) ==
  IF ~InRange(data, PACKET_SIZE + 2)
    THEN [exc |-> TRUE, ok |-> FALSE, val |-> NoValue, flag |-> "same", errs |-> 0]
    ELSE [exc |-> FALSE, ok |-> TRUE,
          val |-> ieee754_number_conversion(
                    Slice(data, 0, 2) \o Slice(data, PACKET_SIZE, PACKET_SIZE + 2)),
          flag |-> "true", errs |-> 0]

_particle_size_measurement(data) ==
  LET c0 == PacketCheck(data, 0)
      c1 == PacketCheck(data, PACKET_SIZE)
      bad == IF c0 # "ok" THEN c0 ELSE c1
      size_data == Slice(data, 0, 2) \o Slice(data, PACKET_SIZE, PACKET_SIZE + 2)
  IN IF bad = "index"
       THEN [exc |-> TRUE, ok |-> FALSE, val |-> NoValue, flag |-> "same", errs |-> 0]
     ELSE IF bad = "crc"
       THEN [exc |-> FALSE, ok |-> FALSE, val |-> FZero, flag |-> "false", errs |-> 1]
     ELSE [exc |-> FALSE, ok |-> TRUE, val |-> ieee754_number_conversion(size_data),
           flag |-> "true", errs |-> 0]

(***************************************************************************)
(* The device and the bus, as far as the driver sees them: the outcome of  *)
(* each i2c.writeto / i2c.readfrom and of the bus reset is an input.       *)
(***************************************************************************)
\* the sensor's own checksum of two bytes (datasheet CRC-8, MSB first);
\* DevXorPoly[x] is x with the polynomial 0x31 added
DevXorPoly == [x \in 0..255 |-> Xor8(x, 49)]
RECURSIVE DevCrcBits(_, _, _)
DevCrcBits(reg, byte, k) ==
  IF k = 0 THEN reg
  ELSE LET top == ((reg \div 128) + (byte \div 128)) % 2
           sh == (reg * 2) % 256
       IN DevCrcBits(IF top = 1 THEN DevXorPoly[sh] ELSE sh, (byte * 2) % 256, k - 1)

DevCrc(b0, b1) == DevCrcBits(DevCrcBits(255, b0, 8), b1, 8)

DevPacket(b0, b1) == <<b0, b1, DevCrc(b0, b1)>>

\* floor(log2 n) for n >= 1
RECURSIVE Log2(_)
Log2(n) == IF n < 2 THEN 0 ELSE 1 + Log2(n \div 2)

\* the 6 bytes the sensor sends for the float with integer value n, 1 <= n < 2^24
DevFloat(n) ==
  LET e == Log2(n)
      f == (n - Pow2(e)) * Pow2(23 - e)
      be == e + 127
  IN DevPacket(be \div 2, ((be % 2) * 128) + (f \div 65536))
       \o DevPacket((f \div 256) % 256, f % 256)

\* the particle sizes the sensor reports; a frame is named by its size
Levels == {10, 20, 30}

\* the ten values of the frame of a level, in wire order
DevValues(level) ==
  [i \in 1..10 |-> IF i = 10 THEN level ELSE level + i]

RECURSIVE Flatten(_)
Flatten(q) == IF q = <<>> THEN <<>> ELSE Head(q) \o Flatten(Tail(q))

\* the 60-byte response to read-measured-values
DevFrames == [level \in Levels |-> Flatten([i \in 1..10 |-> DevFloat(DevValues(level)[i])])]
DevFrame(level) == DevFrames[level]

\* bytes with the checksum byte of every packet in `bad` (0-based) damaged
Damage(bytes, bad) ==
  [i \in 1..Len(bytes) |->
     IF i % 3 = 0 /\ ((i \div 3) - 1) \in bad THEN (bytes[i] + 1) % 256
     ELSE bytes[i]]

\* every packet of a response carries the sensor's checksum
AllPacketsOk(bytes) ==
  /\ Len(bytes) % 3 = 0
  /\ \A p \in 0..((Len(bytes) \div 3) - 1) :
       bytes[3 * p + 3] = DevCrc(bytes[3 * p + 1], bytes[3 * p + 2])

\* the packets (0-based) of a response whose checksum does not match
BadPackets(bytes) ==
  {p \in 0..((Len(bytes) \div 3) - 1) :
     bytes[3 * p + 3] # DevCrc(bytes[3 * p + 1], bytes[3 * p + 2])}

(***************************************************************************)
(* Transport.  A bus event is [ev, cmd, n, ok], a read also holding the    *)
(* bytes it delivered (data); a call returns the events it caused, and     *)
(* exc when an exception leaves it.                                        *)
(***************************************************************************)
Ev(ev, cmd, n, ok) == [ev |-> ev, cmd |-> cmd, n |-> n, ok |-> ok]
EvRead(length, data, ok) ==
  [ev |-> "read", cmd |-> <<>>, n |-> length, ok |-> ok, data |-> data]

\* _bus_reset: rst = "fail" is an exception raised inside it
_bus_reset(rst) == <<Ev("reset", <<>>, 0, rst = "ok")>>

\* a _write_cmd that raises without the bus reset
_write_cmd_no_reset(cmd, guard_ms, w, rst) ==
  IF w = "ok"
    THEN [exc |-> FALSE,
          bus |-> <<Ev("write", cmd, 0, TRUE)>>
                  \o (IF guard_ms # 0 THEN <<Ev("sleep", <<>>, guard_ms, TRUE)>> ELSE <<>>)]
    ELSE [exc |-> TRUE, bus |-> <<Ev("write", cmd, 0, FALSE)>>]

\* a _write_cmd that resets the bus after every write
_write_cmd_reset_always(cmd, guard_ms, w, rst) ==
  IF w = "ok"
    THEN [exc |-> rst # "ok",
          bus |-> <<Ev("write", cmd, 0, TRUE)>> \o _bus_reset(rst)
                  \o (IF guard_ms # 0 /\ rst = "ok"
                        THEN <<Ev("sleep", <<>>, guard_ms, TRUE)>> ELSE <<>>)]
    ELSE [exc |-> TRUE, bus |-> <<Ev("write", cmd, 0, FALSE)>> \o _bus_reset(rst)]

\* _write_cmd(cmd, guard_ms=...): w is the outcome of i2c.writeto
_write_cmd(cmd, guard_ms, w, rst) ==
  IF w = "ok"
    THEN [exc |-> FALSE,
          bus |-> <<Ev("write", cmd, 0, TRUE)>>
                  \o (IF guard_ms # 0 THEN <<Ev("sleep", <<>>, guard_ms, TRUE)>> ELSE <<>>)]
    ELSE [exc |-> TRUE,
          bus |-> <<Ev("write", cmd, 0, FALSE)>> \o _bus_reset(rst)]

\* _read_response(length): r = [err, data] is the outcome of i2c.readfrom
_read_response(length, r, rst) ==
  IF r.err
    THEN [exc |-> TRUE, data |-> <<>>,
          bus |-> <<EvRead(length, <<>>, FALSE)>> \o _bus_reset(rst)]
    ELSE [exc |-> FALSE, data |-> r.data,
          bus |-> <<EvRead(length, r.data, TRUE)>>]

ReadOk(data) == [err |-> FALSE, data |-> data]
ReadErr == [err |-> TRUE, data |-> <<>>]

(***************************************************************************)
(* Inputs: what the bus and the sensor may answer.                         *)
(***************************************************************************)
WriteOutcomes == {"ok", "err"}
ResetOutcomes == {"ok", "fail"}

\* data-ready responses: ready, not ready, a damaged checksum, a short read
DataReady == DevPacket(0, 1)
DataReadyResponses ==
  {DataReady, DevPacket(0, 0), Damage(DataReady, {0}), Slice(DataReady, 0, 2)}

\* the packets damaged in a measurement response: every choice among six
\* probe packets, which covers both packets of a field, two fields of a
\* section and every combination of sections, and every single packet
ProbePackets == {0, 1, 6, 9, 16, 19}
AllCorruptions == (SUBSET ProbePackets) \cup {{p} : p \in 0..19} \cup {{18, 19}}
\* one damaged packet in each section
SectionCorruptions == {{1}, {9}, {19}}

\* a read of fewer bytes than asked for
ShortFrame == Slice(DevFrame(10), 0, 30)

\* the measurement responses of the window specification and of the frame
\* specification
WindowResponses ==
  {DevFrame(l) : l \in Levels}
    \cup {Damage(DevFrame(10), c) : c \in SectionCorruptions}
    \cup {ShortFrame}
FrameResponses ==
  {Damage(DevFrame(10), c) : c \in AllCorruptions}
    \cup {DevFrame(20), ShortFrame}
AllMeasResponses == WindowResponses \cup FrameResponses

IoOk == [w1 |-> "ok", r1 |-> ReadOk(DataReady), w2 |-> "ok",
         r2 |-> ReadOk(DevFrame(10)), rst |-> "ok"]

\* the bus outcomes of one get_measurement call; what follows the first
\* failure is never asked for and is left at its default
IoFailures(resets) ==
  {[IoOk EXCEPT !.w1 = "err", !.rst = x] : x \in resets}
    \cup {[IoOk EXCEPT !.r1 = ReadErr, !.rst = x] : x \in resets}
    \cup {[IoOk EXCEPT !.w2 = "err", !.rst = x] : x \in resets}
    \cup {[IoOk EXCEPT !.r2 = ReadErr, !.rst = x] : x \in resets}
DataReadyScripts(ds) == {[IoOk EXCEPT !.r1 = ReadOk(d)] : d \in ds}
MeasScripts(ms) == {[IoOk EXCEPT !.r2 = ReadOk(m)] : m \in ms}

\* the window specification: a failure of the first write and of the last
\* read, data not ready, a damaged data-ready packet, and its responses
WindowScripts ==
  {[IoOk EXCEPT !.w1 = "err"], [IoOk EXCEPT !.r2 = ReadErr]}
    \cup DataReadyScripts({DevPacket(0, 0), Damage(DataReady, {0})})
    \cup MeasScripts(WindowResponses)
\* the frame specification: every failure, every data-ready response
FrameScripts ==
  IoFailures(ResetOutcomes)
    \cup DataReadyScripts(DataReadyResponses \ {DataReady})
    \cup MeasScripts(FrameResponses)

(***************************************************************************)
(* The session (the fields of an SPS30 object) and what the last call of   *)
(* a public operation did: its name, argument, return value, the bus       *)
(* events it caused and the measurement response it read.                  *)
(***************************************************************************)
VARIABLES
  is_measuring,                 \* self._is_measuring
  valid,                        \* self._valid
  total_crc_errors,             \* self._total_crc_errors
  last_measurement_crc_errors,  \* self._last_measurement_crc_errors
  has_hist,                     \* hasattr(self, "_hist_frames")
  hist_frames,                  \* self._hist_frames
  hist_maxlen,                  \* self._hist_maxlen
  dev_interval,                 \* the sensor's auto-clean register: the two half-words it stored
  op, arg, ret, bus, raw,       \* the last call
  win,                          \* the reference window (see below)
  series,                       \* the locals of a running take_measurement_series
  cmd_table                     \* the class-level command lists CMD_*

vars == <<is_measuring, valid, total_crc_errors, last_measurement_crc_errors,
          has_hist, hist_frames, hist_maxlen, dev_interval, op, arg, ret, bus, raw,
          win, series, cmd_table>>

session == <<is_measuring, valid, total_crc_errors, last_measurement_crc_errors,
             has_hist, hist_frames, hist_maxlen>>

None == 0

\* no take_measurement_series is running; of a running one: the place in it
\* (pc), count, the loop index i, timeout and the list results
NoSeries == [pc |-> "none", count |-> 0, i |-> 0, timeout |-> 0, results |-> <<>>]

AllInvalid == [mass_density |-> FALSE, particle_count |-> FALSE, particle_size |-> FALSE]
AllValid(v) == v.mass_density /\ v.particle_count /\ v.particle_size

\* return values
Empty == [kind |-> "empty"]
Bool(b) == [kind |-> "bool", val |-> b]

\* the session as one record, for the operators below
Self == [is_measuring |-> is_measuring, valid |-> valid,
         total |-> total_crc_errors, last |-> last_measurement_crc_errors,
         has_hist |-> has_hist, hist_frames |-> hist_frames, hist_maxlen |-> hist_maxlen]

(***************************************************************************)
(* read_data_ready_flag: [ret, errs, bus]; every exception is caught and   *)
(* becomes False.                                                          *)
(***************************************************************************)
\* the part after the read: [ret, errs]; data[2] of a short read is an
\* IndexError, caught like every exception
DataReadyFlag(data) ==
  LET calculated_crc == crc_calc(Slice(data, 0, 2))
  IN IF ~InRange(data, 2) THEN [ret |-> FALSE, errs |-> 0]
     ELSE IF calculated_crc # At(data, 2) THEN [ret |-> FALSE, errs |-> 1]
     ELSE [ret |-> At(data, 1) = 1, errs |-> 0]

\* computed once for each response the bus can deliver
DataReadyMemo == [data \in DataReadyResponses |-> DataReadyFlag(data)]

read_data_ready_flag(w, r, rst) ==
  LET wr == _write_cmd(CMD_READ_DATA_READY_FLAG, GUARD_MS_DEFAULT, w, rst)
      rd == _read_response(NBYTES_READ_DATA_READY_FLAG, r, rst)
      fl == IF rd.data \in DataReadyResponses THEN DataReadyMemo[rd.data]
            ELSE DataReadyFlag(rd.data)
  IN IF wr.exc THEN [ret |-> FALSE, errs |-> 0, bus |-> wr.bus]
     ELSE IF rd.exc THEN [ret |-> FALSE, errs |-> 0, bus |-> wr.bus \o rd.bus]
     ELSE [ret |-> fl.ret, errs |-> fl.errs, bus |-> wr.bus \o rd.bus]

(***************************************************************************)
(* get_measurement.                                                        *)
(***************************************************************************)
SetFlag(v, key, flag) ==
  IF flag = "same" THEN v ELSE [v EXCEPT ![key] = (flag = "true")]

\* the three section decodes of one response, in order; a section after an
\* exception is not run ("skipped")
Skipped == [exc |-> FALSE, ok |-> FALSE, val |-> NoValue, flag |-> "same", errs |-> 0]

Decode(data) ==
  LET mass == _mass_density_measurement(Slice(data, 0, 24))
      cnt == IF mass.exc THEN Skipped
             ELSE _particle_count_measurement(Slice(data, 24, 54))
      size == IF mass.exc \/ cnt.exc THEN Skipped
              ELSE _particle_size_measurement(Slice(data, 54, Max(54, Len(data))))
  IN [mass |-> mass, cnt |-> cnt, size |-> size,
      exc |-> mass.exc \/ cnt.exc \/ size.exc]

\* Decode is a function of the response alone: it is computed once for each
\* response the bus can deliver
DecodeMemo == [data \in AllMeasResponses |-> Decode(data)]
Decoded(data) == IF data \in AllMeasResponses THEN DecodeMemo[data] ELSE Decode(data)

\* the mean of one value over the frames of the window, values[j] being the
\* value of frame j: s = 0.0; s += ...; s / n
RECURSIVE SumOver(_, _)
SumOver(values, i) ==
  IF i > Len(values) THEN FZero
  ELSE FAdd(values[i], SumOver(values, i + 1))

MeanOver(values) == FDiv(SumOver(values, 1), Len(values))

\* an average that is the newest frame of the window
AverageFrameLatest(frames) == frames[Len(frames)]

AverageFrame(frames) ==
  [mass_density |->
     [k \in SeqRange(MassKeys) |->
        MeanOver([j \in 1..Len(frames) |-> frames[j].mass_density[k]])],
   particle_count |->
     [k \in SeqRange(CountKeys) |->
        MeanOver([j \in 1..Len(frames) |-> frames[j].particle_count[k]])],
   particle_size |-> MeanOver([j \in 1..Len(frames) |-> frames[j].particle_size])]

\* a rolling-average block that never evicts
RollingNoEvict(frames, frame, rolling_n) ==
  IF Len(Append(frames, frame)) < rolling_n
    THEN [frames |-> Append(frames, frame), full |-> FALSE, out |-> frame]
    ELSE [frames |-> Append(frames, frame), full |-> TRUE,
          out |-> AverageFrame(Append(frames, frame))]

\* the rolling-average block: [frames, out], out = NoValue for "return {}"
Rolling(frames, frame, rolling_n) ==
  LET appended == Append(frames, frame)
      kept == IF Len(appended) > rolling_n THEN Tail(appended) ELSE appended
  IN IF Len(kept) < rolling_n
       THEN [frames |-> kept, full |-> FALSE, out |-> frame]
       ELSE [frames |-> kept, full |-> TRUE, out |-> AverageFrame(kept)]

\* a window-size check that keeps the frames when the size changes
HistPrepareKeep(s, rolling_n) ==
  IF rolling_n > 1
    THEN [has |-> TRUE, frames |-> s.hist_frames, maxlen |-> rolling_n]
    ELSE IF s.has_hist THEN [has |-> TRUE, frames |-> <<>>, maxlen |-> None]
    ELSE [has |-> s.has_hist, frames |-> s.hist_frames, maxlen |-> s.hist_maxlen]

\* a window-size check that does not drop the history in single-frame mode
HistPrepareNoDrop(s, rolling_n) ==
  IF rolling_n > 1 /\ (~s.has_hist \/ s.hist_maxlen # rolling_n)
    THEN [has |-> TRUE, frames |-> <<>>, maxlen |-> rolling_n]
    ELSE [has |-> s.has_hist, frames |-> s.hist_frames, maxlen |-> s.hist_maxlen]

\* the window-size check that precedes the read: [has, frames, maxlen]
HistPrepare(s, rolling_n) ==
  LET h1 == IF rolling_n > 1 /\ (~s.has_hist \/ s.hist_maxlen # rolling_n)
              THEN [has |-> TRUE, frames |-> <<>>, maxlen |-> rolling_n]
              ELSE [has |-> s.has_hist, frames |-> s.hist_frames, maxlen |-> s.hist_maxlen]
  IN IF rolling_n = 1 /\ h1.has
       THEN [has |-> TRUE, frames |-> <<>>, maxlen |-> None]
       ELSE h1

\* the payload; the timestamp (ticks_ms()) is left out
Result(frame, s, rolling_n) ==
  [kind |-> "frame",
   sensor_data |->
     [mass_density |-> frame.mass_density,
      particle_count |-> frame.particle_count,
      particle_size |-> frame.particle_size,
      mass_density_unit |-> "ug/m3",
      particle_count_unit |-> "#/cm3",
      particle_size_unit |-> "um"],
   measurement_info |->
     [crc_errors_this_measurement |-> s.last,
      total_crc_errors |-> s.total,
      all_sections_valid |-> AllValid(s.valid),
      validity |-> s.valid,
      rolling_n |-> rolling_n]]

\* the value get_measurement returns with: [s, ret, bus, raw]
Return(s, result, b, data) == [s |-> s, ret |-> result, bus |-> b, raw |-> data]

\* the rolling-average block and the result, for an accepted frame
AfterAccept(s3, rolling_n, frame, b, data, roll) ==
  IF rolling_n > 1
    THEN IF ~roll.full
           THEN Return([s3 EXCEPT !.hist_frames = roll.frames], Empty, b, data)
           ELSE Return([s3 EXCEPT !.hist_frames = roll.frames],
                       Result(roll.out, [s3 EXCEPT !.hist_frames = roll.frames], rolling_n),
                       b, data)
    ELSE Return(s3, Result(frame, s3, rolling_n), b, data)

\* an acceptance that looks at the raised decode only
AfterDecodeNoValidity(s3, rolling_n, exc, frame, b, data) ==
  IF exc
    THEN Return(s3, Empty, b, data)
    ELSE AfterAccept(s3, rolling_n, frame, b, data,
                     Rolling(s3.hist_frames, frame, rolling_n))

\* a rejection that empties the window
AfterDecodeClearOnReject(s3, rolling_n, exc, frame, b, data) ==
  IF exc \/ ~AllValid(s3.valid)
    THEN Return([s3 EXCEPT !.hist_frames = <<>>], Empty, b, data)
    ELSE AfterAccept(s3, rolling_n, frame, b, data,
                     Rolling(s3.hist_frames, frame, rolling_n))

\* the acceptance of the frame: a raised decode and a section that is not
\* valid both return the empty result
AfterDecode(s3, rolling_n, exc, frame, b, data) ==
  IF exc \/ ~AllValid(s3.valid)
    THEN Return(s3, Empty, b, data)
    ELSE AfterAccept(s3, rolling_n, frame, b, data,
                     Rolling(s3.hist_frames, frame, rolling_n))

\* a count of the last attempt alone, the cumulative counter left as it is
CountedNotAccumulated(s2, d, errs) ==
  [s2 EXCEPT !.valid = SetFlag(SetFlag(SetFlag(@, "mass_density", d.mass.flag),
                                       "particle_count", d.cnt.flag),
                               "particle_size", d.size.flag),
             !.last = IF d.exc THEN @ ELSE errs]

\* the session after the three decodes d; the assignment of the last-attempt
\* counter is not reached when a decode raised
Counted(s2, d, errs) ==
  [s2 EXCEPT !.valid = SetFlag(SetFlag(SetFlag(@, "mass_density", d.mass.flag),
                                       "particle_count", d.cnt.flag),
                               "particle_size", d.size.flag),
             !.total = @ + errs,
             !.last = IF d.exc THEN @ ELSE errs]

FrameOf(d) ==
  [mass_density |-> d.mass.val, particle_count |-> d.cnt.val,
   particle_size |-> d.size.val]

\* the decodes of the response data read from the bus
AfterRead(s2, rolling_n, b, data, d) ==
  AfterDecode(Counted(s2, d, d.mass.errs + d.cnt.errs + d.size.errs),
              rolling_n, d.exc, FrameOf(d), b, data)

\* a read of the measured values that does not wait for the data-ready flag
AfterReadyUngated(s2, rolling_n, dr, wr, rd) ==
  IF wr.exc THEN Return(s2, Empty, dr.bus \o wr.bus, <<>>)
  ELSE IF rd.exc THEN Return(s2, Empty, dr.bus \o wr.bus \o rd.bus, <<>>)
  ELSE AfterRead(s2, rolling_n, dr.bus \o wr.bus \o rd.bus, rd.data, Decoded(rd.data))

\* the read of the measured values, once the data-ready flag dr is known
AfterReady(s2, rolling_n, dr, wr, rd) ==
  IF ~dr.ret THEN Return(s2, Empty, dr.bus, <<>>)
  ELSE IF wr.exc THEN Return(s2, Empty, dr.bus \o wr.bus, <<>>)
  ELSE IF rd.exc THEN Return(s2, Empty, dr.bus \o wr.bus \o rd.bus, <<>>)
  ELSE AfterRead(s2, rolling_n, dr.bus \o wr.bus \o rd.bus, rd.data, Decoded(rd.data))

\* a poll that leaves the validity flags of the attempt before
AfterPrepareKeepValid(s, rolling_n, io, h, dr) ==
  AfterReady([s EXCEPT !.has_hist = h.has, !.hist_frames = h.frames,
                       !.hist_maxlen = h.maxlen, !.total = @ + dr.errs],
             rolling_n, dr,
             _write_cmd(CMD_READ_MEASURED_VALUES, GUARD_MS_DEFAULT, io.w2, io.rst),
             _read_response(NBYTES_MEASURED_VALUES_FLOAT, io.r2, io.rst))

\* a poll that starts the last-attempt count afresh with its own detection
AfterPrepareCountsPoll(s, rolling_n, io, h, dr) ==
  AfterReady([s EXCEPT !.has_hist = h.has, !.hist_frames = h.frames,
                       !.hist_maxlen = h.maxlen, !.valid = AllInvalid,
                       !.total = @ + dr.errs, !.last = dr.errs],
             rolling_n, dr,
             _write_cmd(CMD_READ_MEASURED_VALUES, GUARD_MS_DEFAULT, io.w2, io.rst),
             _read_response(NBYTES_MEASURED_VALUES_FLOAT, io.r2, io.rst))

\* the data-ready poll, after the window-size check h
AfterPrepare(s, rolling_n, io, h, dr) ==
  AfterReady([s EXCEPT !.has_hist = h.has, !.hist_frames = h.frames,
                       !.hist_maxlen = h.maxlen, !.valid = AllInvalid,
                       !.total = @ + dr.errs],
             rolling_n, dr,
             _write_cmd(CMD_READ_MEASURED_VALUES, GUARD_MS_DEFAULT, io.w2, io.rst),
             _read_response(NBYTES_MEASURED_VALUES_FLOAT, io.r2, io.rst))

\* a window size that is taken as it was passed
RollingNAsPassed(n0) == n0

\* rolling_n = max(1, int(rolling_n))
RollingN(n0) == IF n0 < 1 THEN 1 ELSE n0

\* get_measurement from the window-size check on (the session is measuring):
\* [s, ret, bus, raw]
Attempt(s, n0, io) ==
  AfterPrepare(s, RollingN(n0), io, HistPrepare(s, RollingN(n0)),
               read_data_ready_flag(io.w1, io.r1, io.rst))

\* a get_measurement without its not-measuring guard
get_measurement_unguarded(s, n0, io) == Attempt(s, n0, io)

\* get_measurement(rolling_n = n0) on session s with bus outcomes io
get_measurement(s, n0, io) ==
  IF ~s.is_measuring
    THEN [s |-> s, ret |-> Empty, bus |-> <<>>, raw |-> <<>>]
    ELSE Attempt(s, n0, io)

(***************************************************************************)
(* The commands without a response.  w is the outcome of the bus write.    *)
(***************************************************************************)
\* a start_measurement that leaves the validity flags as they are
start_measurement_keeps_flags(s, w, rst) ==
  LET cmd0 == CMD_START_MEASUREMENT \o <<3, 0>>
      cmd == Append(cmd0, crc_calc(Slice(cmd0, 2, 4)))
      wr == _write_cmd(cmd, 0, w, rst)
  IN IF wr.exc THEN [s |-> s, ret |-> Bool(FALSE), bus |-> wr.bus]
     ELSE [s |-> [s EXCEPT !.is_measuring = TRUE], ret |-> Bool(TRUE), bus |-> wr.bus]

\* a start_measurement that sends the checksum byte of the comment at
\* CMD_START_MEASUREMENT
start_measurement_comment_crc(s, w, rst) ==
  LET cmd == CMD_START_MEASUREMENT \o <<3, 0, 118>>
      wr == _write_cmd(cmd, 0, w, rst)
  IN IF wr.exc THEN [s |-> s, ret |-> Bool(FALSE), bus |-> wr.bus]
     ELSE [s |-> [s EXCEPT !.is_measuring = TRUE, !.valid = AllInvalid],
           ret |-> Bool(TRUE), bus |-> wr.bus]

\* start_measurement: [s, ret, bus]
start_measurement(s, w, rst) ==
  LET cmd0 == CMD_START_MEASUREMENT \o <<3, 0>>
      cmd == Append(cmd0, crc_calc(Slice(cmd0, 2, 4)))
      wr == _write_cmd(cmd, 0, w, rst)
  IN IF wr.exc THEN [s |-> s, ret |-> Bool(FALSE), bus |-> wr.bus]
     ELSE [s |-> [s EXCEPT !.is_measuring = TRUE, !.valid = AllInvalid],
           ret |-> Bool(TRUE), bus |-> wr.bus]

\* a stop_measurement that clears the measuring flag before it writes
stop_measurement_flag_first(s, w, rst) ==
  LET wr == _write_cmd(CMD_STOP_MEASUREMENT, 0, w, rst)
  IN [s |-> [s EXCEPT !.is_measuring = FALSE], ret |-> Bool(~wr.exc), bus |-> wr.bus]

stop_measurement(s, w, rst) ==
  LET wr == _write_cmd(CMD_STOP_MEASUREMENT, 0, w, rst)
  IN IF wr.exc THEN [s |-> s, ret |-> Bool(FALSE), bus |-> wr.bus]
     ELSE [s |-> [s EXCEPT !.is_measuring = FALSE], ret |-> Bool(TRUE), bus |-> wr.bus]

\* a reset that keeps the error counters
reset_keeps_counters(s, w, rst) ==
  IF _write_cmd(CMD_RESET, 0, w, rst).exc
    THEN [s |-> s, ret |-> Bool(FALSE), bus |-> _write_cmd(CMD_RESET, 0, w, rst).bus]
    ELSE [s |-> [s EXCEPT !.is_measuring = FALSE], ret |-> Bool(TRUE),
          bus |-> _write_cmd(CMD_RESET, 0, w, rst).bus]

\* a reset that also empties the rolling history
reset_clears_history(s, w, rst) ==
  LET wr == _write_cmd(CMD_RESET, 0, w, rst)
  IN IF wr.exc THEN [s |-> s, ret |-> Bool(FALSE), bus |-> wr.bus]
     ELSE [s |-> [s EXCEPT !.is_measuring = FALSE, !.total = 0, !.last = 0,
                           !.hist_frames = <<>>],
           ret |-> Bool(TRUE), bus |-> wr.bus]

reset(s, w, rst) ==
  LET wr == _write_cmd(CMD_RESET, 0, w, rst)
  IN IF wr.exc THEN [s |-> s, ret |-> Bool(FALSE), bus |-> wr.bus]
     ELSE [s |-> [s EXCEPT !.is_measuring = FALSE, !.total = 0, !.last = 0],
           ret |-> Bool(TRUE), bus |-> wr.bus]

sleep(s, w, rst) ==
  LET wr == _write_cmd(CMD_SLEEP, GUARD_MS_DEFAULT, w, rst)
  IN [s |-> s, ret |-> Bool(~wr.exc), bus |-> wr.bus]

wakeup(s, w, rst) ==
  LET wr == _write_cmd(CMD_WAKEUP, 0, w, rst)
  IN [s |-> s, ret |-> Bool(~wr.exc), bus |-> wr.bus]

start_fan_cleaning(s, w, rst) ==
  LET wr == _write_cmd(CMD_START_FAN_CLEANING, GUARD_MS_DEFAULT, w, rst)
  IN [s |-> s, ret |-> Bool(~wr.exc), bus |-> wr.bus]

clear_status_register(s, w, rst) ==
  LET wr == _write_cmd(CMD_CLEAR_STATUS_REGISTER, GUARD_MS_DEFAULT, w, rst)
  IN [s |-> s, ret |-> Bool(~wr.exc), bus |-> wr.bus]

(***************************************************************************)
(* The device-information queries.  A Python str is the sequence of its    *)
(* character codes.                                                        *)
(***************************************************************************)
Str(chars) == [kind |-> "str", val |-> chars]
\* "Unknown", "SPS30", "CRC mismatched"
StrUnknown == Str(<<85, 110, 107, 110, 111, 119, 110>>)
StrSPS30 == Str(<<83, 80, 83, 51, 48>>)
StrCrcMismatched ==
  Str(<<67, 82, 67, 32, 109, 105, 115, 109, 97, 116, 99, 104, 101, 100>>)

\* str(n) of an int n >= 0
RECURSIVE Decimal(_)
Decimal(n) ==
  IF n < 10 THEN <<48 + n>> ELSE Append(Decimal(n \div 10), 48 + (n % 10))

\* str.strip(): whitespace taken from both ends
Whitespace == {9, 10, 11, 12, 13, 32}
RECURSIVE LStrip(_)
LStrip(q) ==
  IF q # <<>> /\ Head(q) \in Whitespace THEN LStrip(Tail(q)) ELSE q
RECURSIVE RStrip(_)
RStrip(q) ==
  IF q # <<>> /\ q[Len(q)] \in Whitespace THEN RStrip(SubSeq(q, 1, Len(q) - 1)) ELSE q
Strip(q) == RStrip(LStrip(q))

\* the bytes of a packet that are not null, as characters
NonNull(data_bytes) == SelectSeq(data_bytes, LAMBDA b : b # 0)

\* the packet loop of product_type and serial_number from byte i on, result
\* being the text so far: [exc, ret, errs]
RECURSIVE TextLoop(_, _, _, _)
TextLoop(data, nbytes, i, result) ==
  IF i >= nbytes THEN [exc |-> FALSE, ret |-> Str(Strip(result)), errs |-> 0]
  ELSE IF ~InRange(data, i + 2) THEN [exc |-> TRUE, ret |-> Str(<<>>), errs |-> 0]
  ELSE IF crc_calc(Slice(data, i, i + 2)) # At(data, i + 2)
    THEN [exc |-> FALSE, ret |-> StrCrcMismatched, errs |-> 1]
  ELSE TextLoop(data, nbytes, i + PACKET_SIZE, result \o NonNull(Slice(data, i, i + 2)))

\* the part of firmware_version after the read: [exc, ret, errs]
FirmwareDecode(data) ==
  IF ~InRange(data, 2) THEN [exc |-> TRUE, ret |-> Str(<<>>), errs |-> 0]
  ELSE IF crc_calc(Slice(data, 0, 2)) # At(data, 2)
    THEN [exc |-> FALSE, ret |-> StrCrcMismatched, errs |-> 1]
  ELSE [exc |-> FALSE, errs |-> 0,
        ret |-> Str(Decimal(At(data, 0)) \o <<46>> \o Decimal(At(data, 1)))]

\* a query of one write and one read whose exceptions are all caught and
\* become the value `failed`: [s, ret, bus, raw]
Query(s, wr, rd, dec, failed) ==
  IF wr.exc THEN [s |-> s, ret |-> failed, bus |-> wr.bus, raw |-> <<>>]
  ELSE IF rd.exc THEN [s |-> s, ret |-> failed, bus |-> wr.bus \o rd.bus, raw |-> <<>>]
  ELSE [s |-> [s EXCEPT !.total = @ + dec.errs],
        ret |-> IF dec.exc THEN failed ELSE dec.ret,
        bus |-> wr.bus \o rd.bus, raw |-> rd.data]

firmware_version(s, w, r, rst) ==
  Query(s, _write_cmd(CMD_FIRMWARE_VERSION, GUARD_MS_DEFAULT, w, rst),
        _read_response(NBYTES_FIRMWARE_VERSION, r, rst),
        FirmwareDecode(r.data), StrUnknown)

product_type(s, w, r, rst) ==
  Query(s, _write_cmd(CMD_PRODUCT_TYPE, GUARD_MS_DEFAULT, w, rst),
        _read_response(NBYTES_PRODUCT_TYPE, r, rst),
        TextLoop(r.data, NBYTES_PRODUCT_TYPE, 0, <<>>), StrSPS30)

serial_number(s, w, r, rst) ==
  Query(s, _write_cmd(CMD_SERIAL_NUMBER, GUARD_MS_DEFAULT, w, rst),
        _read_response(NBYTES_SERIAL_NUMBER, r, rst),
        TextLoop(r.data, NBYTES_SERIAL_NUMBER, 0, <<>>), StrUnknown)

\* read_data_ready_flag called by the user: [s, ret, bus, raw]
ReadDataReadyCall(s, r, dr) ==
  [s |-> [s EXCEPT !.total = @ + dr.errs], ret |-> Bool(dr.ret), bus |-> dr.bus,
   raw |-> IF Len(dr.bus) >= 2 /\ dr.bus[Len(dr.bus)].ev = "read" /\ dr.bus[Len(dr.bus)].ok
             THEN r.data ELSE <<>>]

(***************************************************************************)
(* read_status_register.  The 32-bit status word is kept as its two 16-bit *)
(* halves [hi, lo], value hi * 65536 + lo.                                 *)
(***************************************************************************)
\* return values: the dict of the flags with raw_status, and {"error": ...}
\* with the text "CRC mismatched" or that of a caught exception
Status(speed, laser, fan, word) ==
  [kind |-> "status", speed_status |-> speed, laser_status |-> laser,
   fan_status |-> fan, raw_status |-> word]
StatusError(text) == [kind |-> "error", error |-> text]

\* bit b (0..31) of the word
WordBit(word, b) ==
  IF b >= 16 THEN (word.hi \div Pow2(b - 16)) % 2 ELSE (word.lo \div Pow2(b)) % 2

\* a shift that takes the first packet for the least-significant half
WordShiftInLowFirst(word, data, i) ==
  [hi |-> (At(data, i) * 256) + At(data, i + 1), lo |-> word.hi]

\* word = (word << 16) | (data[i] << 8) | data[i+1], for a word below 2^16
WordShiftIn(word, data, i) ==
  [hi |-> word.lo, lo |-> (At(data, i) * 256) + At(data, i + 1)]

StatusFlags(word) ==
  Status(IF WordBit(word, 21) = 1 THEN "warning" ELSE "ok",
         IF WordBit(word, 5) = 1 THEN "out of range" ELSE "ok",
         IF WordBit(word, 4) = 1 THEN "0 rpm" ELSE "ok",
         word)

\* a packet loop that leaves out a packet whose checksum fails
RECURSIVE StatusLoopSkipBad(_, _, _)
StatusLoopSkipBad(data, i, word) ==
  IF i >= 6 THEN [exc |-> FALSE, ret |-> StatusFlags(word), errs |-> 0]
  ELSE IF ~InRange(data, i + 2)
    THEN [exc |-> TRUE, ret |-> StatusError("exception"), errs |-> 0]
  ELSE IF crc_calc(Slice(data, i, i + 2)) # At(data, i + 2)
    THEN [StatusLoopSkipBad(data, i + 3, word) EXCEPT !.errs = @ + 1]
  ELSE StatusLoopSkipBad(data, i + 3, WordShiftIn(word, data, i))

\* the packet loop `for i in range(0, 6, 3)` from i on, and what follows it:
\* [exc, ret, errs]
RECURSIVE StatusLoop(_, _, _)
StatusLoop(data, i, word) ==
  IF i >= 6 THEN [exc |-> FALSE, ret |-> StatusFlags(word), errs |-> 0]
  ELSE IF ~InRange(data, i + 2)
    THEN [exc |-> TRUE, ret |-> StatusError("exception"), errs |-> 0]
  ELSE IF crc_calc(Slice(data, i, i + 2)) # At(data, i + 2)
    THEN [exc |-> FALSE, ret |-> StatusError("CRC mismatched"), errs |-> 1]
  ELSE StatusLoop(data, i + 3, WordShiftIn(word, data, i))

read_status_register(s, w, r, rst) ==
  Query(s, _write_cmd(CMD_READ_STATUS_REGISTER, GUARD_MS_DEFAULT, w, rst),
        _read_response(NBYTES_READ_STATUS_REGISTER, r, rst),
        StatusLoop(r.data, 0, [hi |-> 0, lo |-> 0]), StatusError("exception"))

(***************************************************************************)
(* The auto-clean interval.  A 32-bit number of seconds is kept as its two *)
(* 16-bit halves [hi, lo], value hi * 65536 + lo.  The argument of the     *)
(* write is a number of days [float, q, r]: q + r / 86400 days, an int     *)
(* (float = FALSE, r = 0) or a float.                                      *)
(***************************************************************************)
Days(q) == [float |-> FALSE, q |-> q, r |-> 0]
FloatDays(q, r) == [float |-> TRUE, q |-> q, r |-> r]

\* seconds = days * 86400 of an int, as lo = seconds & 0xFFFF and
\* hi = seconds >> 16 (86400 = 65536 + 20864)
SecondsLo(q) == (q * (SECONDS_PER_DAY - 65536)) % 65536
SecondsHi(q) == q + ((q * (SECONDS_PER_DAY - 65536)) \div 65536)

\* [(x >> 8) & 0xFF, x & 0xFF]
HalfWordBytes(x) == <<(x \div 256) % 256, x % 256>>

\* a set command whose second checksum is that of the first half-word
AutoCleanSetCmdOneCrc(q) ==
  CMD_AUTO_CLEANING_INTERVAL
    \o HalfWordBytes(SecondsLo(q)) \o <<crc_calc(HalfWordBytes(SecondsLo(q)))>>
    \o HalfWordBytes(SecondsHi(q)) \o <<crc_calc(HalfWordBytes(SecondsLo(q)))>>

\* the command write_auto_cleaning_interval_days sends
AutoCleanSetCmd(q) ==
  CMD_AUTO_CLEANING_INTERVAL
    \o HalfWordBytes(SecondsLo(q)) \o <<crc_calc(HalfWordBytes(SecondsLo(q)))>>
    \o HalfWordBytes(SecondsHi(q)) \o <<crc_calc(HalfWordBytes(SecondsHi(q)))>>

\* the sensor: it stores the two half-words of a set command and returns
\* them, each with its checksum, in the order it received them
DevStore(cmd) == <<Slice(cmd, 2, 4), Slice(cmd, 5, 7)>>
DevIntervalResponse(reg) ==
  DevPacket(reg[1][1], reg[1][2]) \o DevPacket(reg[2][1], reg[2][2])

\* what the read of a script delivers of the response: r = [err, short, bad]
AutoRead(reg, r) ==
  IF r.err THEN ReadErr
  ELSE IF r.short THEN ReadOk(Slice(DevIntervalResponse(reg), 0, 3))
  ELSE ReadOk(Damage(DevIntervalResponse(reg), r.bad))

\* return values of the auto-clean operations
Seconds(hi, lo) == [kind |-> "seconds", hi |-> hi, lo |-> lo]
NoneValue == [kind |-> "none"]
Raised == [kind |-> "raise"]

\* (chunk[0] << 8) | chunk[1]
WordOf(chunk) == (chunk[1] * 256) + chunk[2]

\* the part of read_auto_cleaning_interval after the read: [ret, errs]
AutoCleanDecode(data) ==
  IF Len(data) # NBYTES_AUTO_CLEANING_INTERVAL THEN [ret |-> NoneValue, errs |-> 0]
  ELSE IF crc_calc(Slice(data, 0, 2)) # At(data, 2) THEN [ret |-> NoneValue, errs |-> 1]
  ELSE IF crc_calc(Slice(data, 3, 5)) # At(data, 5) THEN [ret |-> NoneValue, errs |-> 1]
  ELSE [ret |-> Seconds(WordOf(Slice(data, 3, 5)), WordOf(Slice(data, 0, 2))),
        errs |-> 0]

AutoCleanRead(wr, rd, dec) ==
  IF wr.exc THEN [exc |-> TRUE, ret |-> Raised, errs |-> 0, bus |-> wr.bus, raw |-> <<>>]
  ELSE IF rd.exc
    THEN [exc |-> TRUE, ret |-> Raised, errs |-> 0, bus |-> wr.bus \o rd.bus, raw |-> <<>>]
  ELSE [exc |-> FALSE, ret |-> dec.ret, errs |-> dec.errs,
        bus |-> wr.bus \o rd.bus, raw |-> rd.data]

\* read_auto_cleaning_interval with bus outcomes w (the command) and r (the
\* response): [exc, ret, errs, bus, raw]; an exception of the transport
\* leaves the call
read_auto_cleaning_interval(w, r, rst) ==
  AutoCleanRead(_write_cmd(CMD_AUTO_CLEANING_INTERVAL, 0, w, rst),
                _read_response(NBYTES_AUTO_CLEANING_INTERVAL, r, rst),
                AutoCleanDecode(r.data))

\* the verifying read at the end of the write; its exception is caught
AutoCleanVerify(s, reg, wr, rd) ==
  [s |-> [s EXCEPT !.total = @ + rd.errs],
   ret |-> IF rd.exc THEN Bool(FALSE) ELSE rd.ret,
   bus |-> wr.bus \o rd.bus, raw |-> rd.raw, reg |-> reg]

AutoCleanWrite(s, reg, cmd, io, wr) ==
  IF wr.exc
    THEN [s |-> s, ret |-> Bool(FALSE), bus |-> wr.bus, raw |-> <<>>, reg |-> reg]
    ELSE AutoCleanVerify(s, DevStore(cmd), wr,
           read_auto_cleaning_interval(io.w2, AutoRead(DevStore(cmd), io.r), io.rst))

\* a write that refuses an interval of 2^32 seconds or more
write_interval_range_checked(s, reg, days, io) ==
  IF days.float \/ SecondsHi(days.q) >= 65536
    THEN [s |-> s, ret |-> Bool(FALSE), bus |-> <<>>, raw |-> <<>>, reg |-> reg]
    ELSE AutoCleanWrite(s, reg, AutoCleanSetCmd(days.q), io,
                        _write_cmd(AutoCleanSetCmd(days.q), 0, io.w1, io.rst))

\* write_auto_cleaning_interval_days(days) on session s, the sensor's
\* register being reg: [s, ret, bus, raw, reg].  A float makes
\* seconds & 0xFFFF a TypeError, which is caught before anything is sent.
write_auto_cleaning_interval_days(s, reg, days, io) ==
  IF days.float
    THEN [s |-> s, ret |-> Bool(FALSE), bus |-> <<>>, raw |-> <<>>, reg |-> reg]
    ELSE AutoCleanWrite(s, reg, AutoCleanSetCmd(days.q), io,
                        _write_cmd(AutoCleanSetCmd(days.q), 0, io.w1, io.rst))

(***************************************************************************)
(* The reference window: what the frames the sensor delivered make the     *)
(* window of the last measuring call, told from the responses alone.       *)
(*   n      : the window size of the last call that found the session      *)
(*            measuring (0 before the first),                              *)
(*   levels : the frames accepted by the calls since the window size       *)
(*            last changed, the newest last, at most n of them,            *)
(*   resized: that call came with a size other than the size (above 1) of  *)
(*            the call before it.                                          *)
(***************************************************************************)
\* all packets of the response of a call carry the sensor's checksum
PacketsOkMemo == [data \in AllMeasResponses |-> AllPacketsOk(data)]
Accepted(data) ==
  /\ Len(data) = NBYTES_MEASURED_VALUES_FLOAT
  /\ IF data \in AllMeasResponses THEN PacketsOkMemo[data] ELSE AllPacketsOk(data)

LevelOf(data) == CHOOSE l \in Levels : DevFrame(l) = data

LastN(q, n) == IF Len(q) > n THEN SubSeq(q, Len(q) - n + 1, Len(q)) ELSE q

WinNext(w, measuring, n0, data) ==
  LET n == IF n0 < 1 THEN 1 ELSE n0
      base == IF n = w.n THEN w.levels ELSE <<>>
      resized == w.n > 1 /\ n # w.n
  IN IF ~measuring THEN w
     ELSE IF n = 1 THEN [n |-> 1, levels |-> <<>>, resized |-> resized]
     ELSE IF Accepted(data)
       THEN [n |-> n, levels |-> LastN(Append(base, LevelOf(data)), n), resized |-> resized]
     ELSE [n |-> n, levels |-> base, resized |-> resized]

\* the sum of one value (1..10, in wire order) over the frames of levels
RECURSIVE RefSum(_, _)
RefSum(levels, i) ==
  IF levels = <<>> THEN 0 ELSE DevValues(Head(levels))[i] + RefSum(Tail(levels), i)

\* the float x is the quotient num / den (num >= 0, den > 0)
IsQuotient(x, num, den) ==
  /\ x.cls = "num"
  /\ x.s = 0
  /\ IF x.exp >= 0 THEN x.mant * Pow2(x.exp) * den = num * x.div
     ELSE x.mant * den = num * x.div * Pow2(0 - x.exp)

\* every value of a decoded frame is the arithmetic mean of that value over
\* the frames the sensor sent for levels
IsMeanOf(frame, levels) ==
  /\ \A i \in 1..4 :
       IsQuotient(frame.mass_density[MassKeys[i]], RefSum(levels, i), Len(levels))
  /\ \A i \in 1..5 :
       IsQuotient(frame.particle_count[CountKeys[i]], RefSum(levels, 4 + i), Len(levels))
  /\ IsQuotient(frame.particle_size, RefSum(levels, 10), Len(levels))

(***************************************************************************)
(* Actions: one call of a public operation each.                           *)
(***************************************************************************)
InstallCall(r, name, a) ==
  /\ is_measuring' = r.s.is_measuring
  /\ valid' = r.s.valid
  /\ total_crc_errors' = r.s.total
  /\ last_measurement_crc_errors' = r.s.last
  /\ has_hist' = r.s.has_hist
  /\ hist_frames' = r.s.hist_frames
  /\ hist_maxlen' = r.s.hist_maxlen
  /\ op' = name
  /\ arg' = a
  /\ ret' = r.ret
  /\ bus' = r.bus

\* a call made by the program itself, outside take_measurement_series; it
\* passes the class-level lists to _write_cmd as they are, where bytes(cmd)
\* reads them
Install(r, name, a) ==
  /\ InstallCall(r, name, a)
  /\ UNCHANGED <<series, cmd_table>>

\* the bytes a call appended to the opcode of the command it wrote first
ArgBytes(b) == IF b = <<>> THEN <<>> ELSE Slice(b[1].cmd, 2, Len(b[1].cmd))

\* the bus of a call whose first write sends the list cmd
SentFirst(b, cmd) ==
  IF b = <<>> THEN <<>> ELSE <<[b[1] EXCEPT !.cmd = cmd]>> \o Tail(b)

\* a call that builds its command on the class-level list named entry: the
\* opcode it sends is the one the list holds at the call
InstallBuilt(r, name, a, entry) ==
  \E b \in {ExtendedCopy(cmd_table[entry], ArgBytes(r.bus))} :
     /\ InstallCall([r EXCEPT !.bus = SentFirst(r.bus, b.cmd)], name, a)
     /\ cmd_table' = [cmd_table EXCEPT ![entry] = b.entry]

\* cap: the cumulative counter is followed up to this value
GetMeasurement(n0, io, cap) ==
  \E r \in {get_measurement(Self, n0, io)} :
     /\ r.s.total <= cap
     /\ Install(r, "get_measurement", n0)
     /\ raw' = r.raw
     /\ win' = WinNext(win, is_measuring, n0, r.raw)
     /\ UNCHANGED dev_interval

StartMeasurement(w, rst) ==
  /\ InstallBuilt(start_measurement(Self, w, rst), "start_measurement", 0,
                  "CMD_START_MEASUREMENT")
  /\ raw' = <<>>
  /\ UNCHANGED <<dev_interval, win, series>>

StopMeasurement(w, rst) ==
  /\ Install(stop_measurement(Self, w, rst), "stop_measurement", 0)
  /\ raw' = <<>>
  /\ UNCHANGED <<dev_interval, win>>

Reset(w, rst) ==
  /\ Install(reset(Self, w, rst), "reset", 0)
  /\ raw' = <<>>
  /\ UNCHANGED <<dev_interval, win>>

Sleep(w, rst) ==
  /\ Install(sleep(Self, w, rst), "sleep", 0)
  /\ raw' = <<>>
  /\ UNCHANGED <<dev_interval, win>>

Wakeup(w, rst) ==
  /\ Install(wakeup(Self, w, rst), "wakeup", 0)
  /\ raw' = <<>>
  /\ UNCHANGED <<dev_interval, win>>

\* the state after SPS30(...) returned: __init__
Init ==
  /\ is_measuring = FALSE
  /\ valid = AllInvalid
  /\ total_crc_errors = 0
  /\ last_measurement_crc_errors = 0
  /\ has_hist = FALSE
  /\ hist_frames = <<>>
  /\ hist_maxlen = None
  /\ dev_interval = <<<<0, 0>>, <<0, 0>>>>
  /\ op = "init"
  /\ arg = 0
  /\ ret = Empty
  /\ bus = <<>>
  /\ raw = <<>>
  /\ win = [n |-> 0, levels |-> <<>>, resized |-> FALSE]
  /\ series = NoSeries
  /\ cmd_table = CommandTable

\* the commands that change the session
SessionCommands(resets) ==
  \E w \in WriteOutcomes, rst \in resets :
    \/ StartMeasurement(w, rst)
    \/ StopMeasurement(w, rst)
    \/ Reset(w, rst)

Commands(resets) ==
  \/ SessionCommands(resets)
  \/ \E w \in WriteOutcomes, rst \in resets :
       \/ Sleep(w, rst)
       \/ Wakeup(w, rst)

(***************************************************************************)
(* The window specification: the session and the rolling window, with      *)
(* every window size and three frames to tell apart.                       *)
(***************************************************************************)
Measure ==
  \E n0 \in 1..MaxRollingN, io \in WindowScripts : GetMeasurement(n0, io, MaxErrors)

Next == SessionCommands({"ok"}) \/ Measure

Spec == Init /\ [][Next]_vars

(***************************************************************************)
(* The frame specification: one frame at a time (rolling_n below 2), with  *)
(* every bus failure and every damage of the response.                     *)
(***************************************************************************)
MeasureFrame ==
  \E n0 \in 0..1, io \in FrameScripts : GetMeasurement(n0, io, MaxFrameErrors)

NextFrame == Commands(ResetOutcomes) \/ MeasureFrame

SpecFrame == Init /\ [][NextFrame]_vars

(***************************************************************************)
(* The auto-clean specification: the interval written in days and read     *)
(* back in seconds, with every bus failure and damage of the response.     *)
(***************************************************************************)
\* the days written: none, a day, a week, the last whole day below 2^32
\* seconds, the first above, the first above 2^33 seconds, and two floats
\* (2^32 - 1 seconds, and 1.0)
DaysInputs ==
  {Days(q) : q \in {0, 1, 7, 49710, 49711, 99421}}
    \cup {FloatDays(49710, 23295), FloatDays(1, 0)}

AutoReadOk == [err |-> FALSE, short |-> FALSE, bad |-> {}]
AutoIoOk == [w1 |-> "ok", w2 |-> "ok", r |-> AutoReadOk, rst |-> "ok"]
AutoScripts ==
  {AutoIoOk}
    \cup {[AutoIoOk EXCEPT !.w1 = "err", !.rst = x] : x \in ResetOutcomes}
    \cup {[AutoIoOk EXCEPT !.w2 = "err", !.rst = x] : x \in ResetOutcomes}
    \cup {[AutoIoOk EXCEPT !.r.err = TRUE, !.rst = x] : x \in ResetOutcomes}
    \cup {[AutoIoOk EXCEPT !.r.short = TRUE]}
    \cup {[AutoIoOk EXCEPT !.r.bad = b] : b \in {{0}, {1}, {0, 1}}}

WriteAutoCleaningIntervalDays(days, io) ==
  \E r \in {write_auto_cleaning_interval_days(Self, dev_interval, days, io)} :
     /\ r.s.total <= MaxAutoErrors
     /\ InstallBuilt(r, "write_auto_cleaning_interval_days", days,
                     "CMD_AUTO_CLEANING_INTERVAL")
     /\ raw' = r.raw
     /\ dev_interval' = r.reg
     /\ UNCHANGED <<win, series>>

ReadAutoCleaningInterval(io) ==
  \E r \in {read_auto_cleaning_interval(io.w2, AutoRead(dev_interval, io.r), io.rst)} :
     /\ total_crc_errors + r.errs <= MaxAutoErrors
     /\ Install([s |-> [Self EXCEPT !.total = @ + r.errs], ret |-> r.ret, bus |-> r.bus],
                "read_auto_cleaning_interval", 0)
     /\ raw' = r.raw
     /\ UNCHANGED <<dev_interval, win>>

NextAuto ==
  \/ \E days \in DaysInputs, io \in AutoScripts : WriteAutoCleaningIntervalDays(days, io)
  \/ \E io \in AutoScripts : ReadAutoCleaningInterval(io)

SpecAuto == Init /\ [][NextAuto]_vars

(***************************************************************************)
(* The specification of all operations: every public operation of a        *)
(* session in any order, one frame at a time, with every bus failure.      *)
(***************************************************************************)
\* the text of two characters to a packet, null-padded to n packets
RECURSIVE DevText(_, _)
DevText(chars, n) ==
  IF n = 0 THEN <<>>
  ELSE DevPacket(IF Len(chars) >= 1 THEN chars[1] ELSE 0,
                 IF Len(chars) >= 2 THEN chars[2] ELSE 0)
         \o DevText(IF Len(chars) > 2 THEN SubSeq(chars, 3, Len(chars)) ELSE <<>>, n - 1)

\* firmware 2.3; product types "00080000" and "SPS30"; serial "A1B2C3D4 "
FirmwareResponses ==
  {DevPacket(2, 3), Damage(DevPacket(2, 3), {0}), Slice(DevPacket(2, 3), 0, 2)}
ProductOk == DevText(<<48, 48, 48, 56, 48, 48, 48, 48>>, 4)
ProductResponses ==
  {ProductOk, DevText(StrSPS30.val, 4), Damage(ProductOk, {2}), Slice(ProductOk, 0, 6)}
SerialOk == DevText(<<65, 49, 66, 50, 67, 51, 68, 52, 32>>, 16)
SerialResponses == {SerialOk, Damage(SerialOk, {0, 15}), Slice(SerialOk, 0, 45)}

\* the sensor's status register with the bits of `bits` set: the half of it
\* from bit `base` on (16 bits), and its response, the upper half first
RECURSIVE DevStatusHalf(_, _, _)
DevStatusHalf(bits, base, k) ==
  IF k = 16 THEN 0
  ELSE (IF (base + k) \in bits THEN Pow2(k) ELSE 0) + DevStatusHalf(bits, base, k + 1)
DevStatusResponse(bits) ==
  DevPacket(DevStatusHalf(bits, 16, 0) \div 256, DevStatusHalf(bits, 16, 0) % 256)
    \o DevPacket(DevStatusHalf(bits, 0, 0) \div 256, DevStatusHalf(bits, 0, 0) % 256)

\* every combination of the three flags, and other bits: their neighbours,
\* the bits 26 and 27, the ends of the halves
StatusBitSets ==
  (SUBSET {21, 5, 4}) \cup {{3, 6, 20, 22}, {0, 15, 16, 26, 27, 31}}
StatusResponses ==
  {DevStatusResponse(bits) : bits \in StatusBitSets}
    \cup {Damage(DevStatusResponse({21, 4}), c) : c \in {{0}, {1}}}
    \cup {Slice(DevStatusResponse({5}), 0, 3)}

\* the bus outcomes of a query: a failed write, a failed read, a response;
\* a failing bus reset is followed in the commands, in get_measurement and
\* in the auto-clean operations
QueryScripts(responses) ==
  {[w |-> "err", r |-> ReadErr, rst |-> "ok"], [w |-> "ok", r |-> ReadErr, rst |-> "ok"]}
    \cup {[w |-> "ok", r |-> ReadOk(d), rst |-> "ok"] : d \in responses}

OpsMeasResponses ==
  {Damage(DevFrame(10), c) : c \in {{}, {19}, {1, 6}, {0, 19}}}
    \cup {ShortFrame, Damage(ShortFrame, {8})}
OpsScripts ==
  IoFailures({"ok"})
    \cup {[IoOk EXCEPT !.r1 = ReadErr, !.rst = "fail"]}
    \cup DataReadyScripts(DataReadyResponses \ {DataReady})
    \cup MeasScripts(OpsMeasResponses)

OpsDays == {Days(7), FloatDays(49710, 23295)}

InstallQuery(r, name) ==
  /\ r.s.total <= MaxOpsErrors
  /\ Install(r, name, 0)
  /\ raw' = r.raw
  /\ UNCHANGED <<dev_interval, win>>

ReadDataReadyFlag(io) ==
  InstallQuery(ReadDataReadyCall(Self, io.r, read_data_ready_flag(io.w, io.r, io.rst)),
               "read_data_ready_flag")

FirmwareVersion(io) ==
  InstallQuery(firmware_version(Self, io.w, io.r, io.rst), "firmware_version")

ProductType(io) ==
  InstallQuery(product_type(Self, io.w, io.r, io.rst), "product_type")

SerialNumber(io) ==
  InstallQuery(serial_number(Self, io.w, io.r, io.rst), "serial_number")

ReadStatusRegister(io) ==
  InstallQuery(read_status_register(Self, io.w, io.r, io.rst), "read_status_register")

StartFanCleaning(w, rst) ==
  /\ Install(start_fan_cleaning(Self, w, rst), "start_fan_cleaning", 0)
  /\ raw' = <<>>
  /\ UNCHANGED <<dev_interval, win>>

ClearStatusRegister(w, rst) ==
  /\ Install(clear_status_register(Self, w, rst), "clear_status_register", 0)
  /\ raw' = <<>>
  /\ UNCHANGED <<dev_interval, win>>

NextOps ==
  \/ Commands(ResetOutcomes)
  \/ \E w \in WriteOutcomes, rst \in ResetOutcomes :
       \/ StartFanCleaning(w, rst)
       \/ ClearStatusRegister(w, rst)
  \/ \E io \in QueryScripts(StatusResponses) : ReadStatusRegister(io)
  \/ \E io \in OpsScripts : GetMeasurement(1, io, MaxOpsErrors)
  \/ \E io \in QueryScripts(DataReadyResponses) : ReadDataReadyFlag(io)
  \/ \E io \in QueryScripts(FirmwareResponses) : FirmwareVersion(io)
  \/ \E io \in QueryScripts(ProductResponses) : ProductType(io)
  \/ \E io \in QueryScripts(SerialResponses) : SerialNumber(io)
  \/ \E days \in OpsDays : \E io \in (IF days.float THEN {AutoIoOk} ELSE AutoScripts) :
       /\ total_crc_errors < MaxOpsErrors
       /\ WriteAutoCleaningIntervalDays(days, io)
  \/ \E io \in AutoScripts :
       /\ total_crc_errors < MaxOpsErrors
       /\ ReadAutoCleaningInterval(io)

SpecOps == Init /\ [][NextOps]_vars

(***************************************************************************)
(* The history specification: one window size above 1, every command       *)
(* between the measurements, frames of every level.                        *)
(***************************************************************************)
HistWindow == 2

HistScripts ==
  {[IoOk EXCEPT !.r1 = ReadOk(DevPacket(0, 0))]}
    \cup MeasScripts({DevFrame(l) : l \in Levels})
    \cup MeasScripts({Damage(DevFrame(10), {9})})

NextHist ==
  \/ Commands({"ok"})
  \/ \E io \in HistScripts : GetMeasurement(HistWindow, io, MaxErrors)

SpecHist == Init /\ [][NextHist]_vars

(***************************************************************************)
(* take_measurement_series(count, interval, stabilization_time), one call  *)
(* of the series to a step: start_measurement, each poll of the wait loop, *)
(* each get_measurement, and the stop_measurement of the finally block.    *)
(* The locals are in series: pc is "poll" at the head of the wait loop,    *)
(* "measure" after it, "finally" at the finally block, "done" after the    *)
(* return.  The two sleeps with a duration of the caller are inputs: "ok"  *)
(* or "raise" (a duration sleep() does not take).                          *)
(***************************************************************************)
MaxCount == 2
MaxSeriesErrors == 2
POLL_TIMEOUT == 50
POLL_SLEEP_MS == 100

SleepOutcomes == {"ok", "raise"}

ListValue(q) == [kind |-> "list", items |-> q]

\* the locals at `finally:`, however it is reached
SeriesFinallyAt(sr) == [sr EXCEPT !.pc = "finally"]

\* the next round of `for i in range(count)`, or the end of the loop
SeriesNextRound(sr) ==
  IF sr.i + 1 < sr.count
    THEN [sr EXCEPT !.pc = "poll", !.i = @ + 1, !.timeout = 0]
    ELSE [sr EXCEPT !.pc = "finally", !.i = @ + 1]

\* a start that returns the results at once, past the finally block
SeriesAfterStartNoFinally(count, started, stab) ==
  IF ~started
    THEN [pc |-> "done", count |-> count, i |-> 0, timeout |-> 0, results |-> <<>>]
  ELSE IF stab = "raise"
    THEN [pc |-> "finally", count |-> count, i |-> 0, timeout |-> 0, results |-> <<>>]
  ELSE [pc |-> "poll", count |-> count, i |-> 0, timeout |-> 0, results |-> <<>>]

\* after start_measurement() returned started: `return results` and an
\* exception of sleep(stabilization_time) both lead to the finally block
SeriesAfterStart(count, started, stab) ==
  IF ~started \/ stab = "raise"
    THEN [pc |-> "finally", count |-> count, i |-> 0, timeout |-> 0, results |-> <<>>]
    ELSE [pc |-> "poll", count |-> count, i |-> 0, timeout |-> 0, results |-> <<>>]

\* a wait loop that does not count its polls
SeriesAfterPollNoCount(sr, ready) ==
  IF ~ready /\ sr.timeout < POLL_TIMEOUT THEN sr
  ELSE IF sr.timeout >= POLL_TIMEOUT THEN SeriesNextRound(sr)
  ELSE [sr EXCEPT !.pc = "measure"]

\* `while not self.read_data_ready_flag() and timeout < 50`, the flag just
\* read being ready: the body (timeout += 1), or the exit and
\* `if timeout >= 50: continue`
SeriesAfterPoll(sr, ready) ==
  IF ~ready /\ sr.timeout < POLL_TIMEOUT THEN [sr EXCEPT !.timeout = @ + 1]
  ELSE IF sr.timeout >= POLL_TIMEOUT THEN SeriesNextRound(sr)
  ELSE [sr EXCEPT !.pc = "measure"]

\* the events of the loop body after a poll
SeriesPollSleep(sr, ready) ==
  IF ~ready /\ sr.timeout < POLL_TIMEOUT
    THEN <<Ev("sleep", <<>>, POLL_SLEEP_MS, TRUE)>> ELSE <<>>

\* after `measurement = self.get_measurement()`: the append of a non-empty
\* measurement, sleep(interval) before every round but the last
SeriesAfterMeasure(sr, measurement, interval) ==
  IF sr.i < sr.count - 1 /\ interval = "raise"
    THEN SeriesFinallyAt([sr EXCEPT !.results =
                            IF measurement # Empty THEN Append(@, measurement) ELSE @])
    ELSE SeriesNextRound([sr EXCEPT !.results =
                            IF measurement # Empty THEN Append(@, measurement) ELSE @])

\* take_measurement_series(count) is called on the session of __init__
SeriesStart(count, w, rst, stab) ==
  /\ series.pc = "none"
  /\ op = "init"
  /\ InstallBuilt(start_measurement(Self, w, rst), "start_measurement", count,
                  "CMD_START_MEASUREMENT")
  /\ series' = SeriesAfterStart(count, start_measurement(Self, w, rst).ret.val, stab)
  /\ raw' = <<>>
  /\ UNCHANGED <<dev_interval, win>>

SeriesPoll(io) ==
  /\ series.pc = "poll"
  /\ \E dr \in {read_data_ready_flag(io.w, io.r, io.rst)} :
       /\ total_crc_errors + dr.errs <= MaxSeriesErrors
       /\ InstallCall([s |-> [Self EXCEPT !.total = @ + dr.errs], ret |-> Bool(dr.ret),
                       bus |-> dr.bus \o SeriesPollSleep(series, dr.ret)],
                      "read_data_ready_flag", 0)
       /\ series' = SeriesAfterPoll(series, dr.ret)
  /\ raw' = <<>>
  /\ UNCHANGED <<dev_interval, win, cmd_table>>

SeriesMeasure(io, interval) ==
  /\ series.pc = "measure"
  /\ \E r \in {get_measurement(Self, 1, io)} :
       /\ r.s.total <= MaxSeriesErrors
       /\ InstallCall(r, "get_measurement", 1)
       /\ raw' = r.raw
       /\ win' = WinNext(win, is_measuring, 1, r.raw)
       /\ series' = SeriesAfterMeasure(series, r.ret, interval)
  /\ UNCHANGED <<dev_interval, cmd_table>>

\* finally: self.stop_measurement(); then `return results`
SeriesFinally(w, rst) ==
  /\ series.pc = "finally"
  /\ InstallCall([stop_measurement(Self, w, rst) EXCEPT !.ret = ListValue(series.results)],
                 "take_measurement_series", series.count)
  /\ series' = [series EXCEPT !.pc = "done"]
  /\ raw' = <<>>
  /\ UNCHANGED <<dev_interval, win, cmd_table>>

\* the polls of the series: a failed write, a failed read, every data-ready
\* response; its measurements: a failed write, a failed read, data not
\* ready, a good frame, a damaged one, a short one
SeriesPollScripts == QueryScripts(DataReadyResponses)
SeriesMeasScripts ==
  {[IoOk EXCEPT !.w2 = "err"], [IoOk EXCEPT !.r2 = ReadErr],
   [IoOk EXCEPT !.r1 = ReadOk(DevPacket(0, 0))]}
    \cup MeasScripts({DevFrame(10), Damage(DevFrame(10), {9}), ShortFrame})

NextSeries ==
  \/ \E count \in 1..MaxCount, w \in WriteOutcomes, rst \in ResetOutcomes,
        stab \in SleepOutcomes : SeriesStart(count, w, rst, stab)
  \/ \E io \in SeriesPollScripts : SeriesPoll(io)
  \/ \E io \in SeriesMeasScripts, interval \in SleepOutcomes : SeriesMeasure(io, interval)
  \/ \E w \in WriteOutcomes, rst \in ResetOutcomes : SeriesFinally(w, rst)

SpecSeries == Init /\ [][NextSeries]_vars

\* the series runs on: the program takes its next step whenever it has one
\* (every step of the call moves its position, so the steps are those that
\* change series)
SpecSeriesFair == SpecSeries /\ WF_series(NextSeries)

(***************************************************************************)
(* The specifications of the pure functions: an input is drawn, the        *)
(* session being as __init__ left it, and the function is applied to it.   *)
(***************************************************************************)
IntValue(n) == [kind |-> "int", val |-> n]

\* the input a of a call to come
Input(a) ==
  /\ is_measuring = FALSE
  /\ valid = AllInvalid
  /\ total_crc_errors = 0
  /\ last_measurement_crc_errors = 0
  /\ has_hist = FALSE
  /\ hist_frames = <<>>
  /\ hist_maxlen = None
  /\ dev_interval = <<<<0, 0>>, <<0, 0>>>>
  /\ op = "input"
  /\ arg = a
  /\ ret = Empty
  /\ bus = <<>>
  /\ raw = <<>>
  /\ win = [n |-> 0, levels |-> <<>>, resized |-> FALSE]
  /\ series = NoSeries
  /\ cmd_table = CommandTable

\* the call name(arg) returned result
Returned(name, result) ==
  /\ op = "input"
  /\ op' = name
  /\ ret' = result
  /\ UNCHANGED <<is_measuring, valid, total_crc_errors, last_measurement_crc_errors,
                 has_hist, hist_frames, hist_maxlen, dev_interval, arg, bus, raw, win,
                 series, cmd_table>>

\* crc_calc: every pair of bytes, and sequences of 0, 1, 3 and 4 bytes
CrcInputs ==
  {<<b0, b1>> : b0 \in 0..255, b1 \in 0..255}
    \cup {<<>>, <<190>>, <<190, 239, 146>>, <<3, 0, 172, 0>>}

InitCrc == \E data \in CrcInputs : Input(data)
CrcCalc == Returned("crc_calc", IntValue(crc_calc(arg)))
SpecCrc == InitCrc /\ [][CrcCalc]_vars

(***************************************************************************)
(* Construction.  The environment of SPS30(...) is [i2c, scan, devices,    *)
(* power_on_wait]: whether I2C(...) and i2c.scan() succeed, the addresses  *)
(* the scan reports, and the burn-in flag.  __init__ returns [exc, ret,    *)
(* bus]; its session fields are those of Init.                             *)
(***************************************************************************)
I2C_ADDRESS == 105
\* sleep(20): the burn-in, in seconds
BURN_IN_S == 20

EvScan(devices, ok) ==
  [ev |-> "scan", cmd |-> <<>>, n |-> 0, ok |-> ok, data |-> devices]

\* is_connected: [ret, bus]; every exception of the scan becomes False
is_connected(env) ==
  IF env.scan = "err" THEN [ret |-> FALSE, bus |-> <<EvScan(<<>>, FALSE)>>]
  ELSE [ret |-> \E i \in DOMAIN env.devices : env.devices[i] = I2C_ADDRESS,
        bus |-> <<EvScan(env.devices, TRUE)>>]

\* a constructor that does not look at the answer of is_connected
init_unverified(env) ==
  IF env.i2c = "err" THEN [exc |-> TRUE, ret |-> Raised, bus |-> <<>>]
  ELSE [exc |-> FALSE, ret |-> NoneValue,
        bus |-> is_connected(env).bus
                  \o (IF env.power_on_wait
                        THEN <<Ev("sleep", <<>>, BURN_IN_S * 1000, TRUE)>> ELSE <<>>)]

__init__(env) ==
  IF env.i2c = "err" THEN [exc |-> TRUE, ret |-> Raised, bus |-> <<>>]
  ELSE LET c == is_connected(env)
       IN IF ~c.ret THEN [exc |-> TRUE, ret |-> Raised, bus |-> c.bus]
          ELSE [exc |-> FALSE, ret |-> NoneValue,
                bus |-> c.bus \o (IF env.power_on_wait
                                    THEN <<Ev("sleep", <<>>, BURN_IN_S * 1000, TRUE)>>
                                    ELSE <<>>)]

\* SPS30(...) gave an object: __init__ was called and did not raise
Constructed == op # "input" /\ ~(op = "__init__" /\ ret.kind = "raise")

ScanLists == {<<>>, <<I2C_ADDRESS>>, <<104>>, <<104, I2C_ADDRESS>>, <<I2C_ADDRESS, 119>>}
ConnEnvs ==
  {[i2c |-> i, scan |-> s, devices |-> d, power_on_wait |-> p] :
     i \in {"ok", "err"}, s \in {"ok", "err"}, d \in ScanLists, p \in BOOLEAN}

\* sensor = SPS30(...), while the program holds no session
Construct(env) ==
  /\ ~Constructed
  /\ is_measuring' = FALSE
  /\ valid' = AllInvalid
  /\ total_crc_errors' = 0
  /\ last_measurement_crc_errors' = 0
  /\ has_hist' = FALSE
  /\ hist_frames' = <<>>
  /\ hist_maxlen' = None
  /\ op' = "__init__"
  /\ arg' = env
  /\ ret' = __init__(env).ret
  /\ bus' = __init__(env).bus
  /\ UNCHANGED <<dev_interval, raw, win, series, cmd_table>>

\* the calls on the session: they need the object
ConnOps ==
  \/ Commands({"ok"})
  \/ \E io \in OpsScripts : GetMeasurement(1, io, MaxOpsErrors)

InitConn == Input(0)
NextConn ==
  \/ \E env \in ConnEnvs : Construct(env)
  \/ Constructed /\ ConnOps
SpecConn == InitConn /\ [][NextConn]_vars

\* ieee754_number_conversion over words b0 b1 b2 b3: both signs, the
\* exponents at the ends of each class, fractions from 0 to 0x7FFFFF; the
\* words of SAMPLE_WORDS are among them or listed
FloatValue(x) == [kind |-> "float", val |-> x]
SAMPLE_WORDS ==
  {<<0, 0, 0, 0>>, <<128, 0, 0, 0>>, <<63, 128, 0, 0>>, <<191, 128, 0, 0>>,
   <<64, 73, 15, 219>>, <<192, 73, 15, 219>>, <<127, 128, 0, 0>>,
   <<255, 128, 0, 0>>, <<127, 192, 0, 0>>, <<62, 153, 153, 154>>,
   <<61, 204, 204, 205>>, <<0, 128, 0, 0>>, <<127, 127, 255, 255>>}
FloatExponents == {0, 1, 126, 127, 128, 254, 255}
FloatFractions == {0, 1, 4194304, 4788187, 8388607}
FloatWord(s, e, f) ==
  <<(s * 128) + (e \div 2), ((e % 2) * 128) + (f \div 65536),
    (f \div 256) % 256, f % 256>>
FloatInputs ==
  SAMPLE_WORDS \cup
    {FloatWord(s, e, f) : s \in {0, 1}, e \in FloatExponents, f \in FloatFractions}
InitFloat == \E w \in FloatInputs : Input(w)
Ieee754 ==
  Returned("ieee754_number_conversion", FloatValue(ieee754_number_conversion(arg)))
SpecFloat == InitFloat /\ [][Ieee754]_vars

(***************************************************************************)
(* The claims.  Sections of a measurement response, by packet (0-based):   *)
(* mass density 0..7, particle count 8..17, particle size 18..19; field f  *)
(* (0..9) is the packets 2f and 2f + 1.                                    *)
(***************************************************************************)
SectionPackets == {0..7, 8..17, 18..19}
FieldPackets == {{2 * f, 2 * f + 1} : f \in 0..9}

\* C1: a get_measurement call that finds the session not measuring returns
\* the empty result and causes no bus event (no write, no read).
C1_NotMeasuringGuard ==
  [][(op' = "get_measurement" /\ ~is_measuring) => (ret' = Empty /\ bus' = <<>>)]_vars

\* a guarded call after the session was stopped with frames in its history
C1_Witness ==
  /\ op = "get_measurement"
  /\ ~is_measuring
  /\ Len(hist_frames) > 0
  /\ ret = Empty
  /\ bus = <<>>

\* C2: every non-empty result of get_measurement was built from a 60-byte
\* response whose 20 packets all carry the right checksum, the three
\* validity flags being true; a response with a failing packet gives the
\* empty result.
C2_FrameAcceptance ==
  op = "get_measurement" =>
    /\ ret # Empty =>
         /\ Len(raw) = NBYTES_MEASURED_VALUES_FLOAT
         /\ BadPackets(raw) = {}
         /\ AllValid(valid)
    /\ (raw # <<>> /\ BadPackets(raw) # {}) => ret = Empty

\* a frame returned after an attempt that was rejected
C2_Witness ==
  /\ op = "get_measurement"
  /\ ret.kind = "frame"
  /\ BadPackets(raw) = {}
  /\ total_crc_errors > 0

\* C3: when only packets of the particle-size field (bytes 54..59) of a
\* 60-byte response fail their checksum, the mass-density and the
\* particle-count flag are true after the attempt, the particle-size flag
\* is false and the result is empty.
C3_SectionIndependence ==
  (/\ op = "get_measurement"
   /\ Len(raw) = NBYTES_MEASURED_VALUES_FLOAT
   /\ BadPackets(raw) # {}
   /\ BadPackets(raw) \subseteq (18..19)) =>
    /\ valid.mass_density
    /\ valid.particle_count
    /\ ~valid.particle_size
    /\ ret = Empty

C3_Witness ==
  /\ op = "get_measurement"
  /\ BadPackets(raw) = {19}
  /\ valid.mass_density
  /\ valid.particle_count
  /\ ~valid.particle_size
  /\ ret = Empty

\* C4 as stated: the checksum-error count of an attempt that decoded a
\* 60-byte response is the number of fields (of 10) holding a failing packet.
C4_ErrorCountPerField ==
  (op = "get_measurement" /\ Len(raw) = NBYTES_MEASURED_VALUES_FLOAT) =>
    last_measurement_crc_errors =
      Cardinality({f \in FieldPackets : f \cap BadPackets(raw) # {}})

\* C4, amended: the first checksum failure of a section ends the decode of
\* that section, so the checksum-error count of an attempt that decoded a
\* 60-byte response is the number of sections (of 3) holding a failing packet.
C4_ErrorCountFirstFailureOfSection ==
  (op = "get_measurement" /\ Len(raw) = NBYTES_MEASURED_VALUES_FLOAT) =>
    last_measurement_crc_errors =
      Cardinality({sec \in SectionPackets : sec \cap BadPackets(raw) # {}})

\* two fields of the mass-density section fail: one error is counted
C4_Witness ==
  /\ op = "get_measurement"
  /\ BadPackets(raw) = {1, 6}
  /\ last_measurement_crc_errors = 1

\* C5: with a window size N > 1, a call that accepts a frame returns the
\* empty result while fewer than N frames were accepted since the window
\* was empty, and from the N-th on the arithmetic mean, value by value, of
\* the N frames accepted last.
C5_RollingWindowOutput ==
  (op = "get_measurement" /\ arg > 1 /\ Accepted(raw)) =>
    IF Len(win.levels) < arg
      THEN ret = Empty
      ELSE /\ Len(win.levels) = arg
           /\ ret.kind = "frame"
           /\ IsMeanOf(ret.sensor_data, win.levels)

\* N = 3 and the particle sizes 10, 20, 30: the third call returns 20
C5_Witness ==
  /\ op = "get_measurement"
  /\ arg = 3
  /\ win.levels = <<10, 20, 30>>
  /\ ret.kind = "frame"
  /\ ret.sensor_data.particle_size = FloatOf(20)

\* C6: the rolling history never holds more frames than the window size of
\* the last call that reached the window.
C6_WindowBound == Len(hist_frames) <= win.n

\* a full window, after rejected attempts
C6_Witness ==
  /\ win.n > 1
  /\ Len(hist_frames) = win.n
  /\ total_crc_errors > 0

\* C7: after a call that came with a window size other than the size N > 1
\* of the call before it, the history holds nothing but the frame that call
\* accepted (nothing in single-frame mode), and a result it returned is
\* that frame alone.
C7_ResizeDiscardsHistory ==
  win.resized =>
    /\ Len(win.levels) <= 1
    /\ Len(hist_frames) = Len(win.levels)
    /\ Len(hist_frames) = 1 => IsMeanOf(hist_frames[1], win.levels)
    /\ (op = "get_measurement" /\ ret # Empty) =>
         /\ win.n = 1
         /\ IsMeanOf(ret.sensor_data, <<LevelOf(raw)>>)

\* a resize to another size above 1 whose frame was accepted
C7_Witness ==
  /\ win.resized
  /\ win.n > 1
  /\ op = "get_measurement"
  /\ Accepted(raw)
  /\ Len(hist_frames) = 1

\* C8: with window size 1, a call that accepts a frame returns the decoded
\* values of that frame and the history holds no frame.
C8_PassThrough ==
  (op = "get_measurement" /\ arg = 1 /\ Accepted(raw)) =>
    /\ ret.kind = "frame"
    /\ IsMeanOf(ret.sensor_data, <<LevelOf(raw)>>)
    /\ hist_frames = <<>>

\* single-frame mode after a window was in use
C8_Witness ==
  /\ op = "get_measurement"
  /\ arg = 1
  /\ Accepted(raw)
  /\ has_hist
  /\ win.resized
  /\ ret.kind = "frame"

\* a call with N > 1 that found the session measuring and accepted no frame
Rejecting ==
  /\ op' = "get_measurement"
  /\ is_measuring
  /\ arg' > 1
  /\ ~Accepted(raw')

\* C9 as stated: a call with N > 1 that ends without an accepted frame
\* leaves the rolling history as it was.
C9_RejectedLeavesHistory ==
  [][Rejecting => hist_frames' = hist_frames]_vars

\* C9, amended: a call with N > 1 equal to the window size of the call
\* before it, that ends without an accepted frame, leaves the rolling
\* history as it was (a call with another size empties it first).
C9_RejectedLeavesHistorySameSize ==
  [][(Rejecting /\ arg' = win.n) => hist_frames' = hist_frames]_vars

\* a rejected response that left a frame in the window
C9_Witness ==
  /\ op = "get_measurement"
  /\ arg > 1
  /\ raw # <<>>
  /\ ~Accepted(raw)
  /\ ~win.resized
  /\ win.n = arg
  /\ Len(hist_frames) > 0

\* the intervals of the round trip: the seconds as two halves, and the
\* days that stand for them
RoundTripCases ==
  {[days |-> Days(0), hi |-> 0, lo |-> 0],
   [days |-> Days(1), hi |-> 1, lo |-> 20864],
   [days |-> Days(7), hi |-> 9, lo |-> 14976],
   [days |-> FloatDays(49710, 23295), hi |-> 65535, lo |-> 65535]}

\* no transfer of the last call failed, and what was read is what the
\* sensor holds
CleanTransfers ==
  /\ \A i \in 1..Len(bus) : bus[i].ok
  /\ raw # <<>> => raw = DevIntervalResponse(dev_interval)

\* C10: writing an interval of S seconds, S in {0, 86400, 604800,
\* 4294967295}, with no failing transfer, stores the low half of S first
\* and the high half second and returns S as read back.
C10_AutoCleanRoundTrip ==
  \A c \in RoundTripCases :
    (/\ op = "write_auto_cleaning_interval_days"
     /\ arg = c.days
     /\ CleanTransfers) =>
      /\ ret = Seconds(c.hi, c.lo)
      /\ dev_interval = <<HalfWordBytes(c.lo), HalfWordBytes(c.hi)>>

\* C11: after a successful sleep the session is not measuring, and a
\* get_measurement that follows it returns the empty result and causes no
\* bus event.
C11_SleepLeavesMeasuring ==
  [][/\ (op' = "sleep" /\ ret' = Bool(TRUE)) => ~is_measuring'
     /\ (op = "sleep" /\ ret = Bool(TRUE) /\ op' = "get_measurement") =>
          (ret' = Empty /\ bus' = <<>>)]_vars

\* C12: after a successful reset the session is not measuring and the
\* cumulative and the last-attempt checksum-error counter are zero.
C12_ResetClearsSession ==
  (op = "reset" /\ ret = Bool(TRUE)) =>
    /\ ~is_measuring
    /\ total_crc_errors = 0
    /\ last_measurement_crc_errors = 0

\* a reset of a session that had decoded a response with a failing
\* particle-size packet
C12_Witness ==
  /\ op = "reset"
  /\ ret = Bool(TRUE)
  /\ valid.mass_density
  /\ valid.particle_count
  /\ ~valid.particle_size
  /\ total_crc_errors = 0

\* C13: a successful start_measurement leaves the session measuring with
\* the three validity flags false, a successful stop_measurement leaves it
\* not measuring, and only a successful start_measurement takes a session
\* that is not measuring to measuring.
C13_StartStopTransitions ==
  [][/\ (op' = "start_measurement" /\ ret' = Bool(TRUE)) =>
          (is_measuring' /\ valid' = AllInvalid)
     /\ (op' = "stop_measurement" /\ ret' = Bool(TRUE)) => ~is_measuring'
     /\ (~is_measuring /\ is_measuring') =>
          (op' = "start_measurement" /\ ret' = Bool(TRUE))]_vars

\* a session started again after an attempt with a checksum error
C13_Witness ==
  /\ op = "start_measurement"
  /\ ret = Bool(TRUE)
  /\ is_measuring
  /\ valid = AllInvalid
  /\ last_measurement_crc_errors > 0

\* The checksum comparisons the client makes on the responses it read, told
\* from the bus events alone with the sensor's checksum.  Packet p (0-based)
\* of a response is complete when all its three bytes arrived.
PacketComplete(data, p) == 3 * p + 3 <= Len(data)
PacketBad(data, p) ==
  PacketComplete(data, p) /\ data[3 * p + 3] # DevCrc(data[3 * p + 1], data[3 * p + 2])

\* packets lo..hi are compared in order up to the first that does not match
\* ("detect", one detection) or is not complete ("raise", an exception and no
\* detection)
RECURSIVE GroupScan(_, _, _)
GroupScan(data, lo, hi) ==
  IF lo > hi THEN "done"
  ELSE IF ~PacketComplete(data, lo) THEN "raise"
  ELSE IF PacketBad(data, lo) THEN "detect"
  ELSE GroupScan(data, lo + 1, hi)
GroupDetects(data, lo, hi) == IF GroupScan(data, lo, hi) = "detect" THEN 1 ELSE 0
GroupRaises(data, lo, hi) == GroupScan(data, lo, hi) = "raise"

\* the three sections of the measured values are compared one after the
\* other, a section only when none before it raised
MeasDetects(data) ==
  GroupDetects(data, 0, 7)
    + (IF GroupRaises(data, 0, 7) THEN 0
       ELSE GroupDetects(data, 8, 17)
              + (IF GroupRaises(data, 8, 17) THEN 0 ELSE GroupDetects(data, 18, 19)))

\* computed once for each response of the all-operations specification
MeasDetectsMemo == [data \in OpsMeasResponses |-> MeasDetects(data)]

\* and for each response of the product type and the serial number
TextResponses == ProductResponses \cup SerialResponses
TextDetectsMemo ==
  [data \in TextResponses |->
     GroupDetects(data, 0, (IF data \in ProductResponses THEN 4 ELSE 16) - 1)]

\* the detections on the response of one read, by the command written
\* before it and the length asked for
ReadDetects(e, cmd) ==
  IF e.ev # "read" \/ ~e.ok THEN 0
  ELSE IF cmd = CMD_READ_MEASURED_VALUES
    THEN (IF e.data \in OpsMeasResponses THEN MeasDetectsMemo[e.data]
          ELSE MeasDetects(e.data))
  ELSE IF cmd = CMD_AUTO_CLEANING_INTERVAL
    THEN (IF Len(e.data) = e.n THEN GroupDetects(e.data, 0, 1) ELSE 0)
  ELSE IF cmd \in {CMD_READ_DATA_READY_FLAG, CMD_FIRMWARE_VERSION}
    THEN GroupDetects(e.data, 0, 0)
  ELSE IF e.data \in TextResponses THEN TextDetectsMemo[e.data]
  ELSE GroupDetects(e.data, 0, (e.n \div PACKET_SIZE) - 1)

\* the detections of the events b, cmd being the command written last
RECURSIVE DetectionsFrom(_, _)
DetectionsFrom(b, cmd) ==
  IF b = <<>> THEN 0
  ELSE IF Head(b).ev = "write" THEN DetectionsFrom(Tail(b), Head(b).cmd)
  ELSE ReadDetects(Head(b), cmd) + DetectionsFrom(Tail(b), cmd)

Detections(b) == DetectionsFrom(b, <<>>)

\* C14: a successful reset sets the cumulative checksum-error counter to
\* zero; every other step of every operation adds to it exactly the number
\* of mismatching packets the operation detected, so it never decreases.
C14_CumulativeCounter ==
  [][IF op' = "reset" /\ ret' = Bool(TRUE)
       THEN total_crc_errors' = 0
       ELSE total_crc_errors' = total_crc_errors + Detections(bus')]_vars

\* a get_measurement that detected a mismatch in two sections of one
\* response
C14_Witness ==
  /\ op = "get_measurement"
  /\ Detections(bus) = 2
  /\ last_measurement_crc_errors = 2
  /\ total_crc_errors = 2

\* the values an operation returns when an exception of the transport ended it
IsFailureValue(r) ==
  \/ r.kind \in {"empty", "raise"}
  \/ r.kind = "bool" /\ ~r.val
  \/ r.kind = "str" /\ r.val \in {StrUnknown.val, StrSPS30.val}
  \/ r.kind = "error" /\ r.error = "exception"

\* C15: a failed write of a command is followed by one bus reset, which is
\* the last bus event of the operation: no settle delay, no second write of
\* that command and no read come after it, and the operation ends with its
\* failure value.
C15_WriteFailure ==
  \A i \in 1..Len(bus) :
    (bus[i].ev = "write" /\ ~bus[i].ok) =>
      /\ Len(bus) = i + 1
      /\ bus[i + 1].ev = "reset"
      /\ \A j \in 1..Len(bus) : (j # i /\ bus[j].ev = "write") => bus[j].cmd # bus[i].cmd
      /\ \A j \in 1..Len(bus) : bus[j].ev = "sleep" => j < i
      /\ IsFailureValue(ret)

\* a get_measurement whose second command, read-measured-values, failed to
\* be written after the data-ready poll went through
C15_Witness ==
  /\ op = "get_measurement"
  /\ Len(bus) = 5
  /\ bus[4] = Ev("write", CMD_READ_MEASURED_VALUES, 0, FALSE)
  /\ bus[5].ev = "reset"
  /\ ret = Empty

\* C16: a read that fails with an I/O error, or that delivers fewer bytes
\* than were asked for, is followed by a bus reset that ends the operation,
\* which returns its failure value.
C16_ReadFailure ==
  \A i \in 1..Len(bus) :
    (bus[i].ev = "read" /\ (~bus[i].ok \/ Len(bus[i].data) < bus[i].n)) =>
      /\ Len(bus) = i + 1
      /\ bus[i + 1].ev = "reset"
      /\ IsFailureValue(ret)

\* C17: when the response to read-measured-values or to the auto-clean
\* interval read has another length than was asked for, the operation returns
\* no result, counts no checksum error of it and, for the measured values,
\* leaves no section marked valid.
C17_LengthMismatch ==
  \A i \in 1..Len(bus) :
    (/\ bus[i].ev = "read"
     /\ bus[i].ok
     /\ bus[i].n \in {NBYTES_MEASURED_VALUES_FLOAT, NBYTES_AUTO_CLEANING_INTERVAL}
     /\ Len(bus[i].data) # bus[i].n) =>
      /\ ret.kind \in {"empty", "none"}
      /\ bus[i].n = NBYTES_MEASURED_VALUES_FLOAT =>
           (valid = AllInvalid /\ Detections(bus) = 0)

\* C18: an operation in which the bus reset failed ends with the exception;
\* it returns no value.
C18_ResetFailurePropagates ==
  \A i \in 1..Len(bus) : (bus[i].ev = "reset" /\ ~bus[i].ok) => ret = Raised

\* a write or a read of the operation failed with an I/O error
TransportFailed ==
  \E i \in 1..Len(bus) : bus[i].ev \in {"write", "read"} /\ ~bus[i].ok

\* the call r had a bus transaction without a failure, every read of it
\* delivering the bytes asked for, and returned what the last operation
\* returned
CleanReturn(r) ==
  /\ r.bus # <<>>
  /\ \A i \in 1..Len(r.bus) :
       r.bus[i].ok /\ (r.bus[i].ev = "read" => Len(r.bus[i].data) = r.bus[i].n)
  /\ r.ret = ret

\* C19: what get_measurement, product_type, serial_number, firmware_version,
\* read_data_ready_flag and write_auto_cleaning_interval_days return after a
\* failed write or read is a value that a call of the same operation on the
\* same session whose bus transaction succeeds does not return.
C19_ExplicitFailure ==
  TransportFailed =>
    /\ op = "get_measurement" =>
         ~\E io \in OpsScripts : CleanReturn(get_measurement(Self, 1, io))
    /\ op = "read_data_ready_flag" =>
         ~\E io \in QueryScripts(DataReadyResponses) :
            CleanReturn(ReadDataReadyCall(Self, io.r,
                                          read_data_ready_flag(io.w, io.r, io.rst)))
    /\ op = "firmware_version" =>
         ~\E io \in QueryScripts(FirmwareResponses) :
            CleanReturn(firmware_version(Self, io.w, io.r, io.rst))
    /\ op = "product_type" =>
         ~\E io \in QueryScripts(ProductResponses) :
            CleanReturn(product_type(Self, io.w, io.r, io.rst))
    /\ op = "serial_number" =>
         ~\E io \in QueryScripts(SerialResponses) :
            CleanReturn(serial_number(Self, io.w, io.r, io.rst))
    /\ op = "write_auto_cleaning_interval_days" =>
         ~\E days \in OpsDays, io \in AutoScripts :
            CleanReturn(write_auto_cleaning_interval_days(Self, dev_interval, days, io))

\* C20: a start_measurement and a wakeup that succeeded have a settle delay
\* of more than zero after the write of their command.
C20_SettleDelay ==
  (op \in {"start_measurement", "wakeup"} /\ ret = Bool(TRUE)) =>
    \E i \in 1..Len(bus) : \E j \in 1..Len(bus) :
      /\ i < j
      /\ bus[i].ev = "write"
      /\ bus[j].ev = "sleep"
      /\ bus[j].n > 0

\* C21: every bus reset comes directly after a write or a read of the same
\* operation that failed; an operation without a failed write or read has no
\* bus reset.
C21_ResetReactive ==
  \A i \in 1..Len(bus) :
    bus[i].ev = "reset" =>
      /\ i > 1
      /\ bus[i - 1].ev \in {"write", "read"}
      /\ ~bus[i - 1].ok

\* a get_measurement whose read of the measured values failed, after four
\* bus transfers that went through
C21_Witness ==
  /\ op = "get_measurement"
  /\ Len(bus) = 7
  /\ bus[6].ev = "read"
  /\ ~bus[6].ok
  /\ bus[7].ev = "reset"
  /\ \A i \in 1..5 : bus[i].ok /\ bus[i].ev # "reset"

\* C22: for every pair of bytes crc_calc returns the CRC-8 of polynomial
\* 0x31 and initial value 0xFF, computed bit by bit as the sensor does; the
\* value is in 0..255, and that of (0xBE, 0xEF) is 0x92.
C22_Checksum ==
  (op = "crc_calc" /\ Len(arg) = 2) =>
    /\ ret = IntValue(DevCrc(arg[1], arg[2]))
    /\ ret.val \in 0..255
    /\ arg = <<190, 239>> => ret.val = 146

C22_Witness ==
  /\ op = "crc_calc"
  /\ arg = <<190, 239>>
  /\ ret = IntValue(146)

\* C23: crc_calc of a sequence that has not exactly two bytes ends with an
\* exception; it returns no value.
C23_ChecksumInputError ==
  (op = "crc_calc" /\ Len(arg) # 2) => ret = Raised

\* the section of field f (0..9) of the measured values
SectionOfField(f) ==
  IF f < 4 THEN "mass_density" ELSE IF f < 9 THEN "particle_count" ELSE "particle_size"

\* both packets of the field of packets p and p + 1 arrived with the
\* sensor's checksum
FieldGood(data, p) ==
  /\ PacketComplete(data, p + 1)
  /\ ~PacketBad(data, p)
  /\ ~PacketBad(data, p + 1)
FieldBad(data, p) == PacketBad(data, p) \/ PacketBad(data, p + 1)

\* C24: a two-packet field has a value only when both its packets passed
\* their checksum.  A float of the measured values with a failing packet
\* leaves its section flagged invalid and the call without a result; the
\* status register with a failing packet gives the error record, the
\* auto-clean interval None.
C24_WholeFieldInvalidation ==
  /\ op = "get_measurement" =>
       /\ \A f \in 0..9 :
            FieldBad(raw, 2 * f) => (~valid[SectionOfField(f)] /\ ret = Empty)
       /\ ret # Empty => \A f \in 0..9 : FieldGood(raw, 2 * f)
  /\ op = "read_status_register" =>
       /\ FieldBad(raw, 0) => ret.kind = "error"
       /\ ret.kind = "status" => FieldGood(raw, 0)
  /\ op \in {"read_auto_cleaning_interval", "write_auto_cleaning_interval_days"} =>
       /\ FieldBad(raw, 0) => ret = NoneValue
       /\ ret.kind = "seconds" => FieldGood(raw, 0)

\* a status response whose first packet passes and whose second fails
C24_Witness ==
  /\ op = "read_status_register"
  /\ PacketComplete(raw, 1)
  /\ ~PacketBad(raw, 0)
  /\ PacketBad(raw, 1)
  /\ ret = StatusError("CRC mismatched")

\* the argument bytes at cmd[k], cmd[k + 1] are followed by their checksum
ArgChecked(cmd, k) == cmd[k + 2] = DevCrc(cmd[k], cmd[k + 1])

\* the three shapes of a command: 2, 5 and 8 bytes
CommandShape(cmd) ==
  \/ Len(cmd) = 2
  \/ Len(cmd) = 5 /\ ArgChecked(cmd, 3)
  \/ Len(cmd) = 8 /\ ArgChecked(cmd, 3) /\ ArgChecked(cmd, 6)

\* C25: every command written to the bus has one of the three shapes;
\* start_measurement writes the 5-byte shape with the argument 0x03 0x00 and
\* write_auto_cleaning_interval_days, when it writes, first the 8-byte shape.
C25_CommandShapes ==
  /\ \A i \in 1..Len(bus) : bus[i].ev = "write" => CommandShape(bus[i].cmd)
  /\ op = "start_measurement" =>
       /\ Len(bus) >= 1
       /\ bus[1].ev = "write"
       /\ Len(bus[1].cmd) = 5
       /\ SubSeq(bus[1].cmd, 1, 4) = CMD_START_MEASUREMENT \o <<3, 0>>
       /\ \A i \in 2..Len(bus) : bus[i].ev # "write"
  /\ (op = "write_auto_cleaning_interval_days" /\ bus # <<>>) =>
       /\ bus[1].ev = "write"
       /\ Len(bus[1].cmd) = 8
       /\ SubSeq(bus[1].cmd, 1, 2) = CMD_AUTO_CLEANING_INTERVAL

\* an interval of 7 days = 0x00093A80 seconds written and read back
C25_Witness ==
  /\ op = "write_auto_cleaning_interval_days"
  /\ Len(bus) >= 3
  /\ bus[1].ok
  /\ SubSeq(bus[1].cmd, 3, 4) = <<58, 128>>
  /\ SubSeq(bus[1].cmd, 6, 7) = <<0, 9>>
  /\ bus[2].ev = "write"
  /\ Len(bus[2].cmd) = 2

\* C26: the command start_measurement writes is [0x00, 0x10, 0x03, 0x00, 0x76].
C26_StartBytesComment ==
  op = "start_measurement" => bus[1].cmd = <<0, 16, 3, 0, 118>>

\* C26, amended: the command start_measurement writes is
\* [0x00, 0x10, 0x03, 0x00, 0xAC], 0xAC being the sensor's checksum of the
\* argument bytes (0x03, 0x00).
C26_StartBytes ==
  op = "start_measurement" =>
    /\ bus[1].ev = "write"
    /\ bus[1].cmd = <<0, 16, 3, 0, 172>>
    /\ DevCrc(3, 0) = 172

C26_Witness ==
  /\ op = "start_measurement"
  /\ ret = Bool(TRUE)
  /\ bus = <<Ev("write", <<0, 16, 3, 0, 172>>, 0, TRUE)>>

\* C27: when both packets of the status register pass their checksums, the
\* first packet is the most-significant half of the 32-bit word, and the
\* result reports a fan-speed warning iff bit 21 of the register is set, a
\* laser fault iff bit 5, a fan stall iff bit 4, together with the raw word.
C27_StatusDecode ==
  op = "read_status_register" =>
    \A bits \in StatusBitSets :
      ( /\ Len(bus) = 3
        /\ bus[3].ev = "read"
        /\ bus[3].ok
        /\ bus[3].data = DevStatusResponse(bits) )
      => ret = [kind |-> "status",
                speed_status |-> IF 21 \in bits THEN "warning" ELSE "ok",
                laser_status |-> IF 5 \in bits THEN "out of range" ELSE "ok",
                fan_status |-> IF 4 \in bits THEN "0 rpm" ELSE "ok",
                raw_status |-> [hi |-> DevStatusHalf(bits, 16, 0),
                                lo |-> DevStatusHalf(bits, 0, 0)]]

\* the register 0x00200010 (bits 21 and 4) was read
C27_Witness ==
  /\ op = "read_status_register"
  /\ Len(bus) = 3
  /\ bus[3].ev = "read"
  /\ bus[3].data = DevStatusResponse({21, 4})
  /\ ret = [kind |-> "status", speed_status |-> "warning", laser_status |-> "ok",
            fan_status |-> "0 rpm", raw_status |-> [hi |-> 32, lo |-> 16]]

\* C28: the decoder splits a 32-bit word into sign (bit 31), exponent (bits
\* 30..23) and fraction (bits 22..0); it yields a signed zero for exponent 0
\* and fraction 0, a signed infinity for exponent 0xFF and fraction 0, NaN
\* for exponent 0xFF and another fraction, the subnormal
\* (-1)^s * fraction * 2^(1-127-23) for exponent 0 and another fraction, and
\* otherwise the normal value (-1)^s * (2^23 + fraction) * 2^(exponent-127-23);
\* 0x3F800000 decodes to 1.0 and 0x80000000 to -0.
C28_FloatDecode ==
  op = "ieee754_number_conversion" =>
    LET hi == (arg[1] * 256) + arg[2]
        lo == (arg[3] * 256) + arg[4]
        s == hi \div 32768
        e == (hi \div 128) % 256
        f == ((hi % 128) * 65536) + lo
        v == ret.val
    IN /\ ret.kind = "float"
       /\ (e = 0 /\ f = 0) => (v.cls = "zero" /\ v.s = s)
       /\ (e = 255 /\ f = 0) => (v.cls = "inf" /\ v.s = s)
       /\ (e = 255 /\ f # 0) => v.cls = "nan"
       /\ (e = 0 /\ f # 0) =>
            /\ v.cls = "num" /\ v.s = s /\ v.div = 1
            /\ v.exp >= -149
            /\ v.mant * Pow2(v.exp + 149) = f
       /\ (e \in 1..254) =>
            /\ v.cls = "num" /\ v.s = s /\ v.div = 1
            /\ v.exp >= e - 150
            /\ v.mant * Pow2(v.exp - (e - 150)) = 8388608 + f
       /\ arg = <<63, 128, 0, 0>> => v = FloatOf(1)
       /\ arg = <<128, 0, 0, 0>> => (v.cls = "zero" /\ v.s = 1)

\* the subnormal 0x80400000 was decoded: -(2^-127)
C28_Witness ==
  /\ op = "ieee754_number_conversion"
  /\ arg = <<128, 64, 0, 0>>
  /\ ret = FloatValue([cls |-> "num", s |-> 1, mant |-> 1, exp |-> -127, div |-> 1])

\* the scan of a construction failed, or did not report the address 0x69
ScanFailed ==
  /\ op = "__init__"
  /\ bus # <<>>
  /\ bus[1].ev = "scan"
  /\ \/ ~bus[1].ok
     \/ \A i \in DOMAIN bus[1].data : bus[1].data[i] # 105

BusWrites(b) == {i \in DOMAIN b : b[i].ev = "write"}

\* C29: when the bus scan of a construction fails or does not report the
\* address 0x69, the construction raises; and the step after a construction
\* that raised writes no command to the bus (no session exists to call).
C29_ConnectionFailure ==
  [][ /\ ScanFailed' => ret'.kind = "raise"
      /\ (ScanFailed \/ (op = "__init__" /\ ret.kind = "raise")) => BusWrites(bus') = {}
    ]_vars

\* a construction raised because the scan reported only the address 0x68
C29_Witness ==
  /\ op = "__init__"
  /\ ret = Raised
  /\ bus = <<EvScan(<<104>>, TRUE)>>

\* the event j of b is the read of a data-ready packet, asked for by an
\* earlier write of the data-ready command, complete, with the sensor's
\* checksum and the flag byte 1
ReadyRead(b, j) ==
  /\ b[j].ev = "read"
  /\ b[j].ok
  /\ Len(b[j].data) = 3
  /\ b[j].data[3] = DevCrc(b[j].data[1], b[j].data[2])
  /\ b[j].data[2] = 1
  /\ \E k \in 1..(j - 1) :
       b[k].ev = "write" /\ b[k].ok /\ b[k].cmd = CMD_READ_DATA_READY_FLAG

MeasuredValuesWrites(b) ==
  {i \in DOMAIN b : b[i].ev = "write" /\ b[i].cmd = CMD_READ_MEASURED_VALUES}

\* C30: in a get_measurement call, the read-measured-values command is
\* written only after a data-ready read of the same call returned a
\* checksum-valid packet with the flag byte 1; without such a read (flag not
\* 1, checksum wrong, or the data-ready write or read failed) the call
\* returns the empty result and never writes read-measured-values.
C30_DataReadyGate ==
  op = "get_measurement" =>
    /\ \A i \in MeasuredValuesWrites(bus) :
         \E j \in 1..(i - 1) : ReadyRead(bus, j)
    /\ (\A j \in DOMAIN bus : ~ReadyRead(bus, j)) =>
         /\ ret = Empty
         /\ MeasuredValuesWrites(bus) = {}

\* a measuring session polled, the data-ready packet came with the flag byte
\* 1 and a wrong checksum: the call ended empty after the poll
C30_Witness ==
  /\ op = "get_measurement"
  /\ is_measuring
  /\ ret = Empty
  /\ \E j \in DOMAIN bus :
       /\ bus[j].ev = "read" /\ bus[j].ok
       /\ Len(bus[j].data) = 3
       /\ bus[j].data[2] = 1
       /\ bus[j].data[3] # DevCrc(bus[j].data[1], bus[j].data[2])
       /\ j = Len(bus)
  /\ MeasuredValuesWrites(bus) = {}

\* every packet of a section (a set of packets) arrived in data with the
\* sensor's checksum
SectionPassed(data, sec) ==
  \A p \in sec : PacketComplete(data, p) /\ ~PacketBad(data, p)

\* C31: after a get_measurement call made while measuring, a validity flag
\* is true only if every packet of its section in the response read by this
\* same call (raw, empty when the call read none) passed its checksum; a
\* flag of an earlier attempt does not stay true.
C31_FreshValidity ==
  (op = "get_measurement" /\ is_measuring) =>
    /\ valid.mass_density => SectionPassed(raw, 0..7)
    /\ valid.particle_count => SectionPassed(raw, 8..17)
    /\ valid.particle_size => SectionPassed(raw, 18..19)

\* a call that follows an attempt with a checksum failure, polls, finds the
\* data not ready and leaves all three flags false
C31_Witness ==
  /\ op = "get_measurement"
  /\ is_measuring
  /\ total_crc_errors > 0
  /\ bus # <<>>
  /\ raw = <<>>
  /\ valid = AllInvalid

\* C32: when the bus write of start_measurement, stop_measurement or reset
\* fails, the call returns False and the measuring flag, the three validity
\* flags, both checksum-error counters and the rolling history are as they
\* were before the call.
C32_FailedCommandKeepsState ==
  [][ ( /\ op' \in {"start_measurement", "stop_measurement", "reset"}
        /\ bus' # <<>>
        /\ bus'[1].ev = "write"
        /\ ~bus'[1].ok )
      => (ret' = Bool(FALSE) /\ UNCHANGED session) ]_vars

\* a stop_measurement whose write failed, on a measuring session with an
\* accepted frame in its history and a counted checksum error
C32_Witness ==
  /\ op = "stop_measurement"
  /\ ret = Bool(FALSE)
  /\ bus # <<>>
  /\ ~bus[1].ok
  /\ is_measuring
  /\ Len(hist_frames) > 0
  /\ total_crc_errors > 0

\* C33: every non-empty result of get_measurement reports
\* crc_errors_this_measurement = 0, all_sections_valid = true, the three
\* entries of validity true, and rolling_n equal to the requested window
\* size, a request below 1 counting as 1.
C33_ResultMetadata ==
  (op = "get_measurement" /\ ret # Empty) =>
    /\ ret.kind = "frame"
    /\ ret.measurement_info.crc_errors_this_measurement = 0
    /\ ret.measurement_info.all_sections_valid = TRUE
    /\ ret.measurement_info.validity =
         [mass_density |-> TRUE, particle_count |-> TRUE, particle_size |-> TRUE]
    /\ ret.measurement_info.rolling_n = (IF arg < 1 THEN 1 ELSE arg)

\* a frame returned to get_measurement(0) by a session that had counted a
\* checksum error before
C33_Witness ==
  /\ op = "get_measurement"
  /\ arg = 0
  /\ ret.kind = "frame"
  /\ ret.measurement_info.rolling_n = 1
  /\ ret.measurement_info.total_crc_errors > 0
  /\ ret.measurement_info.crc_errors_this_measurement = 0

\* the sections of a response that hold a packet whose checksum fails
FailingSections(data) ==
  {sec \in SectionPackets : \E p \in sec : PacketBad(data, p)}

\* C34: a get_measurement attempt that reaches decoding (it read a response
\* to read-measured-values) sets the last-attempt error count to the number
\* of sections holding a failing packet, and the cumulative counter grows by
\* that number.
C34_PerSectionCount ==
  [][ (op' = "get_measurement" /\ raw' # <<>>) =>
        /\ last_measurement_crc_errors' = Cardinality(FailingSections(raw'))
        /\ total_crc_errors' = total_crc_errors + Cardinality(FailingSections(raw'))
    ]_vars

\* the last event of b is the read of a complete data-ready packet whose
\* checksum is not the sensor's
PollChecksumFailed(b) ==
  /\ b # <<>>
  /\ b[Len(b)].ev = "read"
  /\ b[Len(b)].ok
  /\ b[Len(b)].n = NBYTES_READ_DATA_READY_FLAG
  /\ PacketBad(b[Len(b)].data, 0)

\* C35: a get_measurement call made while measuring that ends before
\* decoding (no response to read-measured-values was read: data not ready,
\* data-ready checksum failure, I/O failure) leaves the last-attempt
\* checksum-error counter as the previous attempt left it, also when the
\* data-ready checksum failure of this call raised the cumulative counter.
C35_StaleLastCount ==
  [][ (op' = "get_measurement" /\ is_measuring /\ raw' = <<>>) =>
        /\ last_measurement_crc_errors' = last_measurement_crc_errors
        /\ PollChecksumFailed(bus') => total_crc_errors' = total_crc_errors + 1
    ]_vars

\* the poll of the second attempt failed its checksum: the cumulative
\* counter is 2, the last-attempt counter still the 1 of the first attempt
C35_Witness ==
  /\ op = "get_measurement"
  /\ is_measuring
  /\ raw = <<>>
  /\ PollChecksumFailed(bus)
  /\ last_measurement_crc_errors = 1
  /\ total_crc_errors = 2

CommandOps == {"stop_measurement", "start_measurement", "reset", "sleep", "wakeup"}

\* C36: stop_measurement, start_measurement, reset, sleep and wakeup leave
\* the rolling history as it is; so, with the same N > 1, the first
\* measurement after such a command that accepts a frame counts the frames
\* accepted before the command toward the window: it returns the empty
\* result while the window is not full and else the mean of the last N
\* frames accepted, those of before the command among them.
C36_HistoryOutlivesSession ==
  [][ /\ op' \in CommandOps => UNCHANGED <<has_hist, hist_frames, hist_maxlen>>
      /\ ( /\ op \in CommandOps
           /\ op' = "get_measurement"
           /\ is_measuring
           /\ arg' > 1
           /\ arg' = win.n
           /\ win.levels # <<>>
           /\ Accepted(raw') )
         => /\ Len(hist_frames') = Len(LastN(Append(win.levels, LevelOf(raw')), arg'))
            /\ IF Len(win.levels) + 1 < arg' THEN ret' = Empty
               ELSE /\ ret'.kind = "frame"
                    /\ IsMeanOf(ret'.sensor_data,
                                LastN(Append(win.levels, LevelOf(raw')), arg'))
    ]_vars

\* a reset that succeeded on a session with a frame in its history
C36_Witness ==
  /\ op = "reset"
  /\ ret = Bool(TRUE)
  /\ ~is_measuring
  /\ hist_maxlen = 2
  /\ Len(hist_frames) = 1
  /\ win.levels # <<>>

\* days * 86400 as a multiple of 64: days * 1350 units of 64 seconds, 2^32
\* seconds being 67108864 units; the half-words of the seconds modulo 2^32
UnitsOfDays(q) == q * 1350
WrappedHi(q) == (UnitsOfDays(q) % 67108864) \div 1024
WrappedLo(q) == ((UnitsOfDays(q) % 67108864) % 1024) * 64

\* C37: write_auto_cleaning_interval_days checks no range: for a number of
\* days with days * 86400 >= 2^32 it sends the 8-byte command that carries
\* (days * 86400) modulo 2^32, low half first, and with no failing transfer
\* the value read back from the sensor is that remainder, below 2^32 and so
\* not the requested number of seconds.
C37_IntervalWraps ==
  ( /\ op = "write_auto_cleaning_interval_days"
    /\ ~arg.float
    /\ UnitsOfDays(arg.q) >= 67108864 ) =>
    /\ bus # <<>>
    /\ bus[1].ev = "write"
    /\ bus[1].cmd =
         <<128, 4,
           WrappedLo(arg.q) \div 256, WrappedLo(arg.q) % 256,
           DevCrc(WrappedLo(arg.q) \div 256, WrappedLo(arg.q) % 256),
           WrappedHi(arg.q) \div 256, WrappedHi(arg.q) % 256,
           DevCrc(WrappedHi(arg.q) \div 256, WrappedHi(arg.q) % 256)>>
    /\ CleanTransfers =>
         /\ ret = Seconds(WrappedHi(arg.q), WrappedLo(arg.q))
         /\ ret.hi < 65536
         /\ UnitsOfDays(arg.q) \div 1024 >= 65536

\* 49711 days (4295030400 s) were written and 63104 s read back
C37_Witness ==
  /\ op = "write_auto_cleaning_interval_days"
  /\ arg = Days(49711)
  /\ CleanTransfers
  /\ ret = Seconds(0, 63104)
  /\ dev_interval = <<<<246, 128>>, <<0, 0>>>>

SeriesRunning == series.pc \in {"poll", "measure", "finally"}

\* the list a call has returned (the empty list for any other return value)
ReturnedList == IF ret.kind = "list" THEN ret.items ELSE <<>>

\* the bounds of a step of the running series: the wait loop counts its
\* failed polls up to 50 and is left by the poll after the 50th, the loop
\* index only grows, up to count, and the return gives the list of the
\* results, at most count of them, each a non-empty frame with all sections
\* valid
SeriesStepBounds ==
  [][ SeriesRunning =>
        /\ series'.timeout <= 50
        /\ series'.i >= series.i
        /\ series'.i <= series.count
        /\ (series.pc = "poll" /\ series'.pc = "poll" /\ series'.i = series.i) =>
             (series.timeout < 50 /\ series'.timeout = series.timeout + 1)
        /\ series'.pc = "done" =>
             /\ ret'.kind = "list"
             /\ ReturnedList' = series.results
             /\ Len(ReturnedList') <= series.count
             /\ \A k \in DOMAIN ReturnedList' :
                  IF ReturnedList'[k].kind = "frame"
                  THEN AllValid(ReturnedList'[k].measurement_info.validity)
                  ELSE FALSE
    ]_<<series, op>>

\* C38: take_measurement_series finishes for every count >= 1 and every
\* behaviour of the device: each step keeps the bounds above (a bounded
\* number of polls for each measurement, at most count results, each a
\* non-empty accepted frame), and the call comes to its return.
C38_SeriesTerminates == SeriesStepBounds /\ <>(series.pc = "done")

\* a series of two returned one frame: the wait for the other timed out
C38_Witness ==
  /\ series.pc = "done"
  /\ series.count = 2
  /\ series.timeout = 50
  /\ op = "take_measurement_series"
  /\ Len(ReturnedList) = 1

\* C39: however take_measurement_series comes to its end (the loop ran out,
\* start_measurement failed, an exception), the last thing it does on the
\* bus is the write of the stop-measurement command, and when that write
\* succeeded the session is not measuring at the return.
C39_SeriesStops ==
  series.pc = "done" =>
    /\ op = "take_measurement_series"
    /\ bus # <<>>
    /\ bus[1].ev = "write"
    /\ bus[1].cmd = <<1, 4>>
    /\ \A j \in 2..Len(bus) : bus[j].ev # "write" /\ bus[j].ev # "read"
    /\ bus[1].ok => ~is_measuring

\* the series ended by an exception of sleep(interval) after its first
\* frame, and stopped the sensor
C39_Witness ==
  /\ series.pc = "done"
  /\ series.count = 2
  /\ series.i = 0
  /\ Len(series.results) = 1
  /\ bus[1].cmd = <<1, 4>>
  /\ bus[1].ok
  /\ ~is_measuring

\* C40: the class-level command lists are never modified: after any
\* sequence of operations every CMD_* list holds the two bytes the class
\* body gave it, so every call of start_measurement sends 00 10 03 00 AC and
\* every call of write_auto_cleaning_interval_days that sends anything sends
\* the bytes its argument alone determines, the k-th call as the first.
C40_CommandTableFixed ==
  /\ cmd_table = CommandTable
  /\ \A name \in DOMAIN cmd_table : Len(cmd_table[name]) = 2
  /\ op = "start_measurement" => bus[1].cmd = <<0, 16, 3, 0, 172>>
  /\ (op = "write_auto_cleaning_interval_days" /\ bus # <<>>) =>
       bus[1].cmd = AutoCleanSetCmd(arg.q)

\* a start_measurement whose write failed on a session that an earlier
\* start_measurement had set measuring: the later call sent the same bytes
C40_Witness ==
  /\ op = "start_measurement"
  /\ is_measuring
  /\ ~bus[1].ok
  /\ bus[1].cmd = <<0, 16, 3, 0, 172>>
  /\ cmd_table.CMD_START_MEASUREMENT = <<0, 16>>

====
